---------------------------- MODULE Spec2Model ----------------------------
(***************************************************************************)
(* Scenario Computation Engine of the data-center TCO calculator.          *)
(*                                                                         *)
(* The engine (src/app/services/computationEngine.ts, multipliers.ts and   *)
(* the constant tables) is a pipeline of functions over JavaScript         *)
(* numbers.  Numbers are modelled as exact rationals <<n, d>> in lowest    *)
(* terms with d > 0, so that equal numbers are equal tuples.  Math.log is  *)
(* modelled by a binary fixed-point logarithm (shift-and-square), and the  *)
(* quotient of two logarithms is truncated to FractionBits binary digits,  *)
(* the way a floating-point division rounds to a fixed mantissa.           *)
(***************************************************************************)
EXTENDS Integers, Sequences, FiniteSets, TLC

(***************************************************************************)
(* JavaScript number arithmetic                                            *)
(***************************************************************************)
RECURSIVE GCD(_, _)
GCD(a, b) ==
    IF b = 0 THEN a ELSE GCD(b, a % b)

Abs(a) ==
    IF a < 0 THEN -a ELSE a

\* the number n/d, d # 0, in lowest terms with a positive denominator
Num(n, d) ==
    LET g == GCD(Abs(n), Abs(d))
        s == IF d < 0 THEN -1 ELSE 1
    IN  << s * (n \div g), s * (d \div g) >>

Zero ==
    << 0, 1 >>

One ==
    << 1, 1 >>

\* x + y
Plus(x, y) ==
    LET g == GCD(x[2], y[2])
    IN  Num(x[1] * (y[2] \div g) + y[1] * (x[2] \div g), (x[2] \div g) * y[2])

\* x - y
Minus(x, y) ==
    Plus(x, << -y[1], y[2] >>)

\* x * y, cross-reduced before multiplying
Times(x, y) ==
    LET g1 == GCD(Abs(x[1]), y[2])
        g2 == GCD(Abs(y[1]), x[2])
    IN  IF x[1] = 0 \/ y[1] = 0
        THEN Zero
        ELSE << (x[1] \div g1) * (y[1] \div g2), (x[2] \div g2) * (y[2] \div g1) >>

\* x <= y
Leq(x, y) ==
    LET g == GCD(x[2], y[2])
    IN  x[1] * (y[2] \div g) <= y[1] * (x[2] \div g)

\* x < y
Less(x, y) ==
    ~ Leq(y, x)

\* Math.max(x, y)
MathMax(x, y) ==
    IF Leq(x, y) THEN y ELSE x

\* Math.min(x, y)
MathMin(x, y) ==
    IF Leq(x, y) THEN x ELSE y

\* the values a division by zero produces
NaN ==
    << 0, 0 >>

Infinity ==
    << 1, 0 >>

NegInfinity ==
    << -1, 0 >>

IsFinite(x) ==
    x[2] > 0

\* x / y for finite x and y: a zero divisor gives NaN or an infinity
Divide(x, y) ==
    IF y[1] = 0
    THEN IF x[1] = 0 THEN NaN ELSE IF x[1] > 0 THEN Infinity ELSE NegInfinity
    ELSE IF y[1] > 0
         THEN Times(x, << y[2], y[1] >>)
         ELSE Times(x, << -y[2], -y[1] >>)

RECURSIVE IntPow(_, _)
IntPow(b, k) ==
    IF k = 0 THEN 1 ELSE b * IntPow(b, k - 1)

\* Math.pow(x, k) for a positive base x and an integer exponent k
MathPow(x, k) ==
    IF k >= 0
    THEN << IntPow(x[1], k), IntPow(x[2], k) >>
    ELSE << IntPow(x[2], -k), IntPow(x[1], -k) >>

\* precision of the fixed-point logarithm: bits of the mantissa, and binary
\* digits kept after the point
MantissaBits == 12

FractionBits == 8

RECURSIVE IntLog2(_, _)
\* the largest e with 2^e * d <= n, for n >= d > 0
IntLog2(n, d) ==
    IF 2 * d <= n THEN 1 + IntLog2(n, 2 * d) ELSE 0

RECURSIVE FracLog2(_, _, _)
\* the next k binary digits of log2 of the mantissa m (m / 2^MantissaBits in [1, 2))
FracLog2(m, k, acc) ==
    IF k = 0
    THEN acc
    ELSE LET sq == (m * m) \div IntPow(2, MantissaBits)
         IN  IF sq >= IntPow(2, MantissaBits + 1)
             THEN FracLog2(sq \div 2, k - 1, 2 * acc + 1)
             ELSE FracLog2(sq, k - 1, 2 * acc)

\* Math.log(x) for x >= 1, in units of ln 2 / 2^FractionBits
MathLog(x) ==
    LET e == IntLog2(x[1], x[2])
        m == (x[1] * IntPow(2, MantissaBits)) \div (x[2] * IntPow(2, e))
    IN  e * IntPow(2, FractionBits) + FracLog2(m, FractionBits, 0)

\* a / b for two logarithms, b > 0, rounded towards zero to FractionBits digits
LogQuotient(a, b) ==
    Num((a * IntPow(2, FractionBits)) \div b, IntPow(2, FractionBits))

(***************************************************************************)
(* Constant tables                                                         *)
(***************************************************************************)
Regions == {"US", "EU", "Global"}

WorkloadClasses == {"Low", "Medium", "High"}

RegulatoryIntensities == {"Low", "Medium", "High"}

REGION_MULTIPLIERS ==
    [r \in Regions |->
        CASE r = "US"     -> [energy |-> One, labor |-> One, compliance |-> One]
          [] r = "EU"     -> [energy |-> Num(135, 100), labor |-> Num(115, 100),
                              compliance |-> Num(14, 10)]
          [] r = "Global" -> [energy |-> Num(11, 10), labor |-> Num(85, 100),
                              compliance |-> Num(115, 100)]]

baselineYear == 2024

WORKLOAD_PARAMETERS ==
    [c \in WorkloadClasses \cup {"AI_accelerated"} |->
        CASE c = "Low"    -> [energy |-> Num(6, 10), cooling |-> Num(7, 10),
                              monitoring |-> Num(8, 10)]
          [] c = "Medium" -> [energy |-> One, cooling |-> One, monitoring |-> One]
          [] c = "High"   -> [energy |-> Num(14, 10), cooling |-> Num(13, 10),
                              monitoring |-> Num(12, 10)]
          [] c = "AI_accelerated" ->
                             [energy |-> Num(18, 10), cooling |-> Num(15, 10),
                              monitoring |-> Num(13, 10)]]

REGULATORY_PARAMETERS ==
    [i \in RegulatoryIntensities |->
        CASE i = "Low"    -> [auditFrequency |-> Num(1, 2), documentationHours |-> Num(200, 1),
                              complianceMultiplier |-> Num(7, 10),
                              externalAdvisoryIncluded |-> FALSE]
          [] i = "Medium" -> [auditFrequency |-> One, documentationHours |-> Num(500, 1),
                              complianceMultiplier |-> One,
                              externalAdvisoryIncluded |-> FALSE]
          [] i = "High"   -> [auditFrequency |-> Num(2, 1), documentationHours |-> Num(1200, 1),
                              complianceMultiplier |-> Num(15, 10),
                              externalAdvisoryIncluded |-> TRUE]]

costPerAudit == 75000

externalAdvisory == 120000

certificationCosts == 50000

documentationHourlyRate == 75

trainingPerEmployee == 500

complianceTooling == 25000

COMPLIANCE_BASE_COSTS ==
    [costPerAudit |-> Num(costPerAudit, 1),
     externalAdvisory |-> Num(externalAdvisory, 1),
     certificationCosts |-> Num(certificationCosts, 1),
     documentationHourlyRate |-> Num(documentationHourlyRate, 1),
     trainingPerEmployee |-> Num(trainingPerEmployee, 1),
     complianceTooling |-> Num(complianceTooling, 1)]

defaultEmployeeCount == 50

defaultLaborHourlyRate == 75

referenceInvestment == 50000

maxInvestment == 500000

\* the cooling-related share of the power distribution cost, 0.4
coolingShare ==
    Num(4, 10)

\* the value of a property that is not set (a number has a positive denominator)
Undefined ==
    << 0, -1 >>

(***************************************************************************)
(* Axis multiplier resolvers and the combiner (multipliers.ts)             *)
(***************************************************************************)
getRegionMultipliers(region) ==
    LET regionConfig == REGION_MULTIPLIERS[region]
    IN  [energy |-> regionConfig.energy,
         labor |-> regionConfig.labor,
         compliance |-> regionConfig.compliance,
         cooling |-> One,
         monitoring |-> One]

\* x || 1 for a number or undefined x: undefined and 0 are falsy
OrOne(x) ==
    IF x = Undefined \/ x = Zero THEN One ELSE x

\* getTimeMultipliers applying the shock factor whether or not shock is enabled
getTimeMultipliersShockAlways(time) ==
    LET yearsFromBaseline == time.year - baselineYear
        escalationFactor == MathPow(Plus(One, time.escalationRate), yearsFromBaseline)
        energyShockMultiplier == OrOne(time.shockFactor)
    IN  [energy |-> Times(escalationFactor, energyShockMultiplier),
         labor |-> escalationFactor,
         compliance |-> One,
         cooling |-> escalationFactor,
         monitoring |-> One]

getTimeMultipliers(time) ==
    LET yearsFromBaseline == time.year - baselineYear
        escalationFactor == MathPow(Plus(One, time.escalationRate), yearsFromBaseline)
        energyShockMultiplier == IF time.shockEnabled THEN OrOne(time.shockFactor) ELSE One
    IN  [energy |-> Times(escalationFactor, energyShockMultiplier),
         labor |-> escalationFactor,
         compliance |-> One,
         cooling |-> escalationFactor,
         monitoring |-> One]

\* getWorkloadMultipliers adding the AI set's excess over 1 to the class set
getWorkloadMultipliersAdditive(workload) ==
    LET base(classConfig) ==
            [energy |-> classConfig.energy,
             labor |-> One,
             compliance |-> One,
             cooling |-> classConfig.cooling,
             monitoring |-> classConfig.monitoring]
        stacked(multipliers, aiConfig) ==
            [energy |-> Plus(multipliers.energy, Minus(aiConfig.energy, One)),
             labor |-> multipliers.labor,
             compliance |-> multipliers.compliance,
             cooling |-> Plus(multipliers.cooling, Minus(aiConfig.cooling, One)),
             monitoring |-> Plus(multipliers.monitoring, Minus(aiConfig.monitoring, One))]
    IN  IF workload.aiEnabled
        THEN stacked(base(WORKLOAD_PARAMETERS[workload.utilizationClass]),
                     WORKLOAD_PARAMETERS["AI_accelerated"])
        ELSE base(WORKLOAD_PARAMETERS[workload.utilizationClass])

getWorkloadMultipliers(workload) ==
    LET \* let multipliers = { energy: classConfig.energy, ... }
        base(classConfig) ==
            [energy |-> classConfig.energy,
             labor |-> One,
             compliance |-> One,
             cooling |-> classConfig.cooling,
             monitoring |-> classConfig.monitoring]
        \* multipliers = { energy: multipliers.energy * aiConfig.energy, ... }
        stacked(multipliers, aiConfig) ==
            [energy |-> Times(multipliers.energy, aiConfig.energy),
             labor |-> multipliers.labor,
             compliance |-> multipliers.compliance,
             cooling |-> Times(multipliers.cooling, aiConfig.cooling),
             monitoring |-> Times(multipliers.monitoring, aiConfig.monitoring)]
    IN  IF workload.aiEnabled
        THEN stacked(base(WORKLOAD_PARAMETERS[workload.utilizationClass]),
                     WORKLOAD_PARAMETERS["AI_accelerated"])
        ELSE base(WORKLOAD_PARAMETERS[workload.utilizationClass])

getRegulatoryMultipliers(intensity) ==
    LET regConfig == REGULATORY_PARAMETERS[intensity]
    IN  [energy |-> One,
         labor |-> One,
         compliance |-> regConfig.complianceMultiplier,
         cooling |-> One,
         monitoring |-> One]

RECURSIVE combineFrom(_, _, _)
\* the loop of combineMultipliers from element i on, combined being the
\* accumulator object
combineFrom(multiplierSets, i, combined) ==
    IF i > Len(multiplierSets)
    THEN combined
    ELSE LET set == multiplierSets[i]
         IN  combineFrom(multiplierSets, i + 1,
                 [energy |-> Times(combined.energy, set.energy),
                  labor |-> Times(combined.labor, set.labor),
                  compliance |-> Times(combined.compliance, set.compliance),
                  cooling |-> Times(combined.cooling, set.cooling),
                  monitoring |-> Times(combined.monitoring, set.monitoring)])

\* combineMultipliers with its loop starting at the second element
combineMultipliersFromSecond(multiplierSets) ==
    combineFrom(multiplierSets, 2,
        [energy |-> One, labor |-> One, compliance |-> One,
         cooling |-> One, monitoring |-> One])

combineMultipliers(multiplierSets) ==
    combineFrom(multiplierSets, 1,
        [energy |-> One, labor |-> One, compliance |-> One,
         cooling |-> One, monitoring |-> One])

\* calculateEscalationFactor of the time constants: clamps to 1 at or
\* before the baseline year
calculateEscalationFactor(targetYear, escalationRate) ==
    LET years == targetYear - baselineYear
    IN  IF years <= 0 THEN One ELSE MathPow(Plus(One, escalationRate), years)

(***************************************************************************)
(* Cost calculators (computationEngine.ts)                                 *)
(***************************************************************************)
\* calculateComplianceCosts of the regulatory constants: the second calculator,
\* with training and tooling costs
totalComplianceCosts(intensity, employeeCount) ==
    LET costs(config, base) ==
            LET auditCosts == Times(config.auditFrequency, base.costPerAudit)
                documentationCosts == Times(config.documentationHours,
                                            base.documentationHourlyRate)
                advisoryCosts == IF config.externalAdvisoryIncluded
                                 THEN base.externalAdvisory ELSE Zero
                certCosts == Times(base.certificationCosts, config.complianceMultiplier)
                trainingCosts == Times(base.trainingPerEmployee, employeeCount)
                toolingCosts == Times(base.complianceTooling, config.complianceMultiplier)
            IN  [auditCosts |-> auditCosts,
                 documentationCosts |-> documentationCosts,
                 advisoryCosts |-> advisoryCosts,
                 certificationCosts |-> certCosts,
                 trainingCosts |-> trainingCosts,
                 toolingCosts |-> toolingCosts,
                 total |-> Plus(Plus(Plus(Plus(Plus(auditCosts, documentationCosts),
                                advisoryCosts), certCosts), trainingCosts), toolingCosts)]
    IN  costs(REGULATORY_PARAMETERS[intensity], COMPLIANCE_BASE_COSTS)

\* calculateComplianceCosts with the advisory retainer charged at every intensity
calculateComplianceCostsAdvised(scenario, laborHourlyRate) ==
    LET costs(regParams, baseCosts) ==
            LET auditCosts == Times(regParams.auditFrequency, baseCosts.costPerAudit)
                documentationCosts == Times(regParams.documentationHours, laborHourlyRate)
                advisoryCosts == baseCosts.externalAdvisory
                certCosts == Times(baseCosts.certificationCosts,
                                   regParams.complianceMultiplier)
            IN  [auditCosts |-> auditCosts,
                 documentationCosts |-> documentationCosts,
                 advisoryCosts |-> advisoryCosts,
                 certificationCosts |-> certCosts,
                 total |-> Plus(Plus(Plus(auditCosts, documentationCosts), advisoryCosts),
                                certCosts),
                 breakdown |-> [auditFrequency |-> regParams.auditFrequency,
                                costPerAudit |-> baseCosts.costPerAudit,
                                documentationHours |-> regParams.documentationHours,
                                hourlyRate |-> laborHourlyRate]]
    IN  costs(REGULATORY_PARAMETERS[scenario.regulatoryIntensity], COMPLIANCE_BASE_COSTS)

calculateComplianceCosts(scenario, laborHourlyRate) ==
    LET costs(regParams, baseCosts) ==
            LET auditCosts == Times(regParams.auditFrequency, baseCosts.costPerAudit)
                documentationCosts == Times(regParams.documentationHours, laborHourlyRate)
                advisoryCosts == IF regParams.externalAdvisoryIncluded
                                 THEN baseCosts.externalAdvisory ELSE Zero
                certCosts == Times(baseCosts.certificationCosts,
                                   regParams.complianceMultiplier)
            IN  [auditCosts |-> auditCosts,
                 documentationCosts |-> documentationCosts,
                 advisoryCosts |-> advisoryCosts,
                 certificationCosts |-> certCosts,
                 total |-> Plus(Plus(Plus(auditCosts, documentationCosts), advisoryCosts),
                                certCosts),
                 breakdown |-> [auditFrequency |-> regParams.auditFrequency,
                                costPerAudit |-> baseCosts.costPerAudit,
                                documentationHours |-> regParams.documentationHours,
                                hourlyRate |-> laborHourlyRate]]
    IN  costs(REGULATORY_PARAMETERS[scenario.regulatoryIntensity], COMPLIANCE_BASE_COSTS)

\* calculateSecurityCosts with the retainer scaled by the regulatory multiplier
calculateSecurityCostsRegulated(scenario, context) ==
    LET security == scenario.security
        siemCosts == Times(security.siemPerNode, context.nodeCount)
        iamCosts == Times(security.iamPerUser, security.userCount)
        encryptionCosts == Times(security.encryptionPerTB, context.totalStorageTB)
        incidentResponseCosts ==
            Times(security.incidentResponseRetainer,
                  REGULATORY_PARAMETERS[scenario.regulatoryIntensity].complianceMultiplier)
    IN  [siemCosts |-> siemCosts,
         iamCosts |-> iamCosts,
         encryptionCosts |-> encryptionCosts,
         incidentResponseCosts |-> incidentResponseCosts,
         total |-> Plus(Plus(Plus(siemCosts, iamCosts), encryptionCosts),
                        incidentResponseCosts)]

\* calculateSecurityCosts counting the general investment pool in the total
calculateSecurityCostsWithPool(scenario, context) ==
    LET security == scenario.security
        siemCosts == Times(security.siemPerNode, context.nodeCount)
        iamCosts == Times(security.iamPerUser, security.userCount)
        encryptionCosts == Times(security.encryptionPerTB, context.totalStorageTB)
        incidentResponseCosts == security.incidentResponseRetainer
    IN  [siemCosts |-> siemCosts,
         iamCosts |-> iamCosts,
         encryptionCosts |-> encryptionCosts,
         incidentResponseCosts |-> incidentResponseCosts,
         total |-> Plus(Plus(Plus(Plus(siemCosts, iamCosts), encryptionCosts),
                             incidentResponseCosts), security.annualInvestment)]

calculateSecurityCosts(scenario, context) ==
    LET security == scenario.security
        siemCosts == Times(security.siemPerNode, context.nodeCount)
        iamCosts == Times(security.iamPerUser, security.userCount)
        encryptionCosts == Times(security.encryptionPerTB, context.totalStorageTB)
        incidentResponseCosts == security.incidentResponseRetainer
    IN  [siemCosts |-> siemCosts,
         iamCosts |-> iamCosts,
         encryptionCosts |-> encryptionCosts,
         incidentResponseCosts |-> incidentResponseCosts,
         total |-> Plus(Plus(Plus(siemCosts, iamCosts), encryptionCosts),
                        incidentResponseCosts)]

\* log(1 + investment / reference) / log(1 + max / reference)
investmentRatio(totalSecurityInvestment) ==
    LET ref == Num(referenceInvestment, 1)
        max == Num(maxInvestment, 1)
        inv(x) == << x[2], x[1] >>
    IN  LogQuotient(MathLog(Plus(One, Times(totalSecurityInvestment, inv(ref)))),
                    MathLog(Plus(One, Times(max, inv(ref)))))

\* calculateRiskCosts taking the adjusted probability as base x (factor - 1)
calculateRiskCostsSignFlipped(scenario, totalSecurityInvestment) ==
    LET risk == scenario.risk
        costs(securityReductionFactor) ==
            LET adjustedProbability ==
                    Times(risk.baseIncidentProbability, Minus(securityReductionFactor, One))
                expectedAnnualLoss == Times(adjustedProbability, risk.averageImpactCost)
            IN  [expectedAnnualLoss |-> expectedAnnualLoss,
                 adjustedProbability |-> adjustedProbability,
                 securityReductionFactor |-> securityReductionFactor,
                 breakdown |-> [baseIncidentProbability |-> risk.baseIncidentProbability,
                                securityInvestment |-> totalSecurityInvestment,
                                averageImpactCost |-> risk.averageImpactCost]]
    IN  costs(MathMin(risk.maxSecurityReduction,
                      Times(investmentRatio(totalSecurityInvestment),
                            risk.maxSecurityReduction)))

\* calculateRiskCosts with the reduction factor left uncapped
calculateRiskCostsUncapped(scenario, totalSecurityInvestment) ==
    LET risk == scenario.risk
        costs(securityReductionFactor) ==
            LET adjustedProbability ==
                    Times(risk.baseIncidentProbability, Minus(One, securityReductionFactor))
                expectedAnnualLoss == Times(adjustedProbability, risk.averageImpactCost)
            IN  [expectedAnnualLoss |-> expectedAnnualLoss,
                 adjustedProbability |-> adjustedProbability,
                 securityReductionFactor |-> securityReductionFactor,
                 breakdown |-> [baseIncidentProbability |-> risk.baseIncidentProbability,
                                securityInvestment |-> totalSecurityInvestment,
                                averageImpactCost |-> risk.averageImpactCost]]
    IN  costs(Times(investmentRatio(totalSecurityInvestment), risk.maxSecurityReduction))

calculateRiskCosts(scenario, totalSecurityInvestment) ==
    LET risk == scenario.risk
        costs(securityReductionFactor) ==
            LET adjustedProbability ==
                    Times(risk.baseIncidentProbability, Minus(One, securityReductionFactor))
                expectedAnnualLoss == Times(adjustedProbability, risk.averageImpactCost)
            IN  [expectedAnnualLoss |-> expectedAnnualLoss,
                 adjustedProbability |-> adjustedProbability,
                 securityReductionFactor |-> securityReductionFactor,
                 breakdown |-> [baseIncidentProbability |-> risk.baseIncidentProbability,
                                securityInvestment |-> totalSecurityInvestment,
                                averageImpactCost |-> risk.averageImpactCost]]
    IN  costs(MathMin(risk.maxSecurityReduction,
                      Times(investmentRatio(totalSecurityInvestment),
                            risk.maxSecurityReduction)))

\* applyMultipliers taking each adjustment as base x (1 - multiplier)
applyMultipliersInverted(baseTCO, multipliers) ==
    LET energyAdjustment == Times(baseTCO.energy, Minus(One, multipliers.energy))
        laborAdjustment == Times(baseTCO.labor, Minus(One, multipliers.labor))
        coolingPortion == Times(baseTCO.powerDistribution, coolingShare)
        coolingAdjustment == Times(coolingPortion, Minus(One, multipliers.cooling))
    IN  [energyAdjustment |-> energyAdjustment,
         laborAdjustment |-> laborAdjustment,
         coolingAdjustment |-> coolingAdjustment,
         total |-> Plus(Plus(energyAdjustment, laborAdjustment), coolingAdjustment)]

\* applyMultipliers taking the whole power distribution cost as cooling-related
applyMultipliersWholePower(baseTCO, multipliers) ==
    LET energyAdjustment == Times(baseTCO.energy, Minus(multipliers.energy, One))
        laborAdjustment == Times(baseTCO.labor, Minus(multipliers.labor, One))
        coolingPortion == baseTCO.powerDistribution
        coolingAdjustment == Times(coolingPortion, Minus(multipliers.cooling, One))
    IN  [energyAdjustment |-> energyAdjustment,
         laborAdjustment |-> laborAdjustment,
         coolingAdjustment |-> coolingAdjustment,
         total |-> Plus(Plus(energyAdjustment, laborAdjustment), coolingAdjustment)]

applyMultipliers(baseTCO, multipliers) ==
    LET energyAdjustment == Times(baseTCO.energy, Minus(multipliers.energy, One))
        laborAdjustment == Times(baseTCO.labor, Minus(multipliers.labor, One))
        coolingPortion == Times(baseTCO.powerDistribution, coolingShare)
        coolingAdjustment == Times(coolingPortion, Minus(multipliers.cooling, One))
    IN  [energyAdjustment |-> energyAdjustment,
         laborAdjustment |-> laborAdjustment,
         coolingAdjustment |-> coolingAdjustment,
         total |-> Plus(Plus(energyAdjustment, laborAdjustment), coolingAdjustment)]

\* the sum of the base costs with the labor cost left out
baseTCOSumWithoutLabor(baseTCO) ==
    Plus(Plus(Plus(Plus(Plus(Plus(Plus(Zero, baseTCO.land), baseTCO.servers),
        baseTCO.storage), baseTCO.network), baseTCO.powerDistribution),
        baseTCO.energy), baseTCO.software)

\* Object.values(baseTCO).reduce((sum, val) => sum + val, 0), in property order
baseTCOSum(baseTCO) ==
    Plus(Plus(Plus(Plus(Plus(Plus(Plus(Plus(Zero, baseTCO.land), baseTCO.servers),
        baseTCO.storage), baseTCO.network), baseTCO.powerDistribution),
        baseTCO.energy), baseTCO.software), baseTCO.labor)

\* the grand total with the risk layer left out of the sum
grandTotalOfWithoutRisk(baseTCOTotal, adjustmentsTotal, complianceTotal, securityTotal, riskTotal) ==
    Plus(Plus(Plus(baseTCOTotal, adjustmentsTotal), complianceTotal), securityTotal)

\* grandTotal = baseTCOTotal + adjustmentsTotal + complianceTotal + securityTotal + riskTotal
grandTotalOf(baseTCOTotal, adjustmentsTotal, complianceTotal, securityTotal, riskTotal) ==
    Plus(Plus(Plus(Plus(baseTCOTotal, adjustmentsTotal), complianceTotal),
              securityTotal), riskTotal)

\* the itemized controls alone, without the general pool
totalSecurityInvestmentOfControlsOnly(securityCosts, scenario) ==
    securityCosts.total

\* the investment the risk model is given: itemized controls plus the general pool
totalSecurityInvestmentOf(securityCosts, scenario) ==
    Plus(securityCosts.total, scenario.security.annualInvestment)

\* new Date().toISOString() at clock reading t
calculatedAtOf(t) ==
    t

\* computeScenarioTCO deriving the breakdown's scenarioId from the clock reading too
computeScenarioTCOClockId(baseTCO, scenario, context, t) ==
    LET \* Steps 7 and 8: the totals and the breakdown
        breakdown(regionMultipliers, timeMultipliers, workloadMultipliers,
                  regulatoryMultipliers, combinedMultipliers, adjustments,
                  complianceCosts, securityCosts, riskCosts, baseTCOTotal) ==
            [scenarioId |-> << scenario.id, calculatedAtOf(t) >>,
             scenarioName |-> scenario.name,
             baseTCO |-> [land |-> baseTCO.land,
                          servers |-> baseTCO.servers,
                          storage |-> baseTCO.storage,
                          network |-> baseTCO.network,
                          powerDistribution |-> baseTCO.powerDistribution,
                          energy |-> baseTCO.energy,
                          software |-> baseTCO.software,
                          labor |-> baseTCO.labor,
                          total |-> baseTCOTotal],
             multipliers |-> [region |-> regionMultipliers,
                              time |-> [escalationFactor |-> timeMultipliers.energy,
                                        shockFactor |-> IF scenario.time.shockEnabled
                                                        THEN scenario.time.shockFactor
                                                        ELSE One],
                              workload |-> workloadMultipliers,
                              regulatory |-> [complianceMultiplier |->
                                                  regulatoryMultipliers.compliance],
                              combined |-> combinedMultipliers],
             adjustments |-> adjustments,
             complianceCosts |-> complianceCosts,
             securityCosts |-> securityCosts,
             riskCosts |-> riskCosts,
             totals |-> [baseTCO |-> baseTCOTotal,
                         adjustments |-> adjustments.total,
                         compliance |-> complianceCosts.total,
                         security |-> securityCosts.total,
                         risk |-> riskCosts.expectedAnnualLoss,
                         grandTotal |-> grandTotalOf(baseTCOTotal, adjustments.total,
                                                     complianceCosts.total,
                                                     securityCosts.total,
                                                     riskCosts.expectedAnnualLoss)],
             calculatedAt |-> calculatedAtOf(t)]
        \* Steps 3 to 6: the adjustments and the compliance, security and risk costs
        costs(regionMultipliers, timeMultipliers, workloadMultipliers,
              regulatoryMultipliers, combinedMultipliers, securityCosts) ==
            breakdown(regionMultipliers, timeMultipliers, workloadMultipliers,
                      regulatoryMultipliers, combinedMultipliers,
                      applyMultipliers(baseTCO, combinedMultipliers),
                      calculateComplianceCosts(scenario, Num(defaultLaborHourlyRate, 1)),
                      securityCosts,
                      calculateRiskCosts(scenario,
                                         totalSecurityInvestmentOf(securityCosts, scenario)),
                      baseTCOSum(baseTCO))
        \* Step 2: region, time and workload combined; regulatory is left out
        combined(regionMultipliers, timeMultipliers, workloadMultipliers,
                 regulatoryMultipliers) ==
            costs(regionMultipliers, timeMultipliers, workloadMultipliers,
                  regulatoryMultipliers,
                  combineMultipliers(<< regionMultipliers, timeMultipliers,
                                        workloadMultipliers >>),
                  calculateSecurityCosts(scenario, context))
    IN  \* Step 1: the four axis multiplier sets
        combined(getRegionMultipliers(scenario.region),
                 getTimeMultipliers(scenario.time),
                 getWorkloadMultipliers(scenario.workload),
                 getRegulatoryMultipliers(scenario.regulatoryIntensity))

\* computeScenarioTCO called when the clock reads t: each step hands its results
\* on to the steps after it
computeScenarioTCO(baseTCO, scenario, context, t) ==
    LET \* Steps 7 and 8: the totals and the breakdown
        breakdown(regionMultipliers, timeMultipliers, workloadMultipliers,
                  regulatoryMultipliers, combinedMultipliers, adjustments,
                  complianceCosts, securityCosts, riskCosts, baseTCOTotal) ==
            [scenarioId |-> scenario.id,
             scenarioName |-> scenario.name,
             baseTCO |-> [land |-> baseTCO.land,
                          servers |-> baseTCO.servers,
                          storage |-> baseTCO.storage,
                          network |-> baseTCO.network,
                          powerDistribution |-> baseTCO.powerDistribution,
                          energy |-> baseTCO.energy,
                          software |-> baseTCO.software,
                          labor |-> baseTCO.labor,
                          total |-> baseTCOTotal],
             multipliers |-> [region |-> regionMultipliers,
                              time |-> [escalationFactor |-> timeMultipliers.energy,
                                        shockFactor |-> IF scenario.time.shockEnabled
                                                        THEN scenario.time.shockFactor
                                                        ELSE One],
                              workload |-> workloadMultipliers,
                              regulatory |-> [complianceMultiplier |->
                                                  regulatoryMultipliers.compliance],
                              combined |-> combinedMultipliers],
             adjustments |-> adjustments,
             complianceCosts |-> complianceCosts,
             securityCosts |-> securityCosts,
             riskCosts |-> riskCosts,
             totals |-> [baseTCO |-> baseTCOTotal,
                         adjustments |-> adjustments.total,
                         compliance |-> complianceCosts.total,
                         security |-> securityCosts.total,
                         risk |-> riskCosts.expectedAnnualLoss,
                         grandTotal |-> grandTotalOf(baseTCOTotal, adjustments.total,
                                                     complianceCosts.total,
                                                     securityCosts.total,
                                                     riskCosts.expectedAnnualLoss)],
             calculatedAt |-> calculatedAtOf(t)]
        \* Steps 3 to 6: the adjustments and the compliance, security and risk costs
        costs(regionMultipliers, timeMultipliers, workloadMultipliers,
              regulatoryMultipliers, combinedMultipliers, securityCosts) ==
            breakdown(regionMultipliers, timeMultipliers, workloadMultipliers,
                      regulatoryMultipliers, combinedMultipliers,
                      applyMultipliers(baseTCO, combinedMultipliers),
                      calculateComplianceCosts(scenario, Num(defaultLaborHourlyRate, 1)),
                      securityCosts,
                      calculateRiskCosts(scenario,
                                         totalSecurityInvestmentOf(securityCosts, scenario)),
                      baseTCOSum(baseTCO))
        \* Step 2: region, time and workload combined; regulatory is left out
        combined(regionMultipliers, timeMultipliers, workloadMultipliers,
                 regulatoryMultipliers) ==
            costs(regionMultipliers, timeMultipliers, workloadMultipliers,
                  regulatoryMultipliers,
                  combineMultipliers(<< regionMultipliers, timeMultipliers,
                                        workloadMultipliers >>),
                  calculateSecurityCosts(scenario, context))
    IN  \* Step 1: the four axis multiplier sets
        combined(getRegionMultipliers(scenario.region),
                 getTimeMultipliers(scenario.time),
                 getWorkloadMultipliers(scenario.workload),
                 getRegulatoryMultipliers(scenario.regulatoryIntensity))

(***************************************************************************)
(* calculateSensitivity and compareScenarios (computationEngine.ts)        *)
(*                                                                         *)
(* calculateSensitivity builds its perturbed inputs from copies of the     *)
(* caller's objects and assigns to properties of the copies.  Objects are  *)
(* modelled in a store: obj maps an address to the object there, and at    *)
(* maps a variable of the function to the address it refers to, so that an *)
(* assignment through a variable that refers to a caller's object would    *)
(* change that object.  A scenario in the store holds the address of its   *)
(* security object.  The body of the function up to its final calls is a   *)
(* sequence of statements, executed in order, each on the store the one    *)
(* before it left.                                                         *)
(***************************************************************************)
\* var = the object at src itself under a second name, no new object
spreadAlias(store, src, var) ==
    [at |-> (var :> src) @@ store.at, obj |-> store.obj]

\* var = { ...object at src }: a new object, at the address named after var
spread(store, src, var) ==
    [at |-> (var :> var) @@ store.at, obj |-> (var :> store.obj[src]) @@ store.obj]

\* var[field] = value
assign(store, var, field, value) ==
    [store EXCEPT !.obj[store.at[var]][field] = value]

\* the object var refers to
objectAt(store, var) ==
    store.obj[store.at[var]]

\* the scenario var refers to, with its security object in place
scenarioAt(store, var) ==
    [objectAt(store, var) EXCEPT !.security = store.obj[objectAt(store, var).security]]

\* the store at entry: the caller's objects under the parameters' names
callerStore(baseTCO, scenario) ==
    [at |-> ("baseTCO" :> "baseTCO") @@ ("scenario" :> "scenario")
            @@ ("scenario.security" :> "scenario.security"),
     obj |-> ("baseTCO" :> baseTCO)
             @@ ("scenario" :> [scenario EXCEPT !.security = "scenario.security"])
             @@ ("scenario.security" :> scenario.security)]

\* var = { ...from }
copy(var, from) ==
    [op |-> "copy", var |-> var, from |-> from]

\* var[field] = from[field], the factor left out
scaleByOne(var, field, from, factor) ==
    [op |-> "scale", var |-> var, field |-> field, from |-> from, factor |-> One]

\* var[field] = from[field] * factor
scale(var, field, from, factor) ==
    [op |-> "scale", var |-> var, field |-> field, from |-> from, factor |-> factor]

\* var[field] = to, a reference to the object to refers to
set(var, field, to) ==
    [op |-> "set", var |-> var, field |-> field, to |-> to]

\* the statements of calculateSensitivity after the base case, in order
statements(parameter, perturbationPercent) ==
    << copy("lowInput", "baseTCO"),
       copy("highInput", "baseTCO"),
       copy("lowScenario", "scenario"),
       copy("highScenario", "scenario") >>
    \o IF parameter = "security"
       THEN << copy("lowScenario", "scenario"),
               copy("lowSecurity", "scenario.security"),
               scale("lowSecurity", "annualInvestment", "scenario.security",
                     Minus(One, perturbationPercent)),
               set("lowScenario", "security", "lowSecurity"),
               copy("highScenario", "scenario"),
               copy("highSecurity", "scenario.security"),
               scale("highSecurity", "annualInvestment", "scenario.security",
                     Plus(One, perturbationPercent)),
               set("highScenario", "security", "highSecurity") >>
       ELSE << scale("lowInput", parameter, "baseTCO", Minus(One, perturbationPercent)),
               scale("highInput", parameter, "baseTCO", Plus(One, perturbationPercent)) >>

\* one statement executed on the store
execute(store, statement) ==
    CASE statement.op = "copy" ->
             spread(store, store.at[statement.from], statement.var)
      [] statement.op = "scale" ->
             assign(store, statement.var, statement.field,
                    Times(objectAt(store, statement.from)[statement.field],
                          statement.factor))
      [] statement.op = "set" ->
             assign(store, statement.var, statement.field, store.at[statement.to])

RECURSIVE executeFrom(_, _, _)
\* the statements from the i-th on executed in order, each on the store its
\* predecessor left
executeFrom(store, stmts, i) ==
    IF i > Len(stmts)
    THEN store
    ELSE CHOOSE left \in {executeFrom(next, stmts, i + 1) :
                              next \in {execute(store, stmts[i])}} : TRUE

\* the three computeScenarioTCO calls on the store the switch left, the clock
\* reading t1 (base), t2 (low) and t3 (high); with the breakdowns, the
\* perturbed inputs and the caller's objects as the call leaves them
sensitivityOf(store, baseTCO, scenario, context, t1, t2, t3) ==
    LET case == {"base", "low", "high"}
        input == [c \in case |-> CASE c = "base" -> baseTCO
                                   [] c = "low" -> objectAt(store, "lowInput")
                                   [] c = "high" -> objectAt(store, "highInput")]
        params == [c \in case |-> CASE c = "base" -> scenario
                                    [] c = "low" -> scenarioAt(store, "lowScenario")
                                    [] c = "high" -> scenarioAt(store, "highScenario")]
        at == [c \in case |-> CASE c = "base" -> t1 [] c = "low" -> t2 [] c = "high" -> t3]
    IN  [breakdown |-> [c \in case |-> computeScenarioTCO(input[c], params[c], context, at[c])],
         lowInput |-> objectAt(store, "lowInput"),
         highInput |-> objectAt(store, "highInput"),
         lowScenario |-> scenarioAt(store, "lowScenario"),
         highScenario |-> scenarioAt(store, "highScenario"),
         refs |-> [lowInput |-> store.at["lowInput"], highInput |-> store.at["highInput"],
                   lowScenario |-> store.at["lowScenario"],
                   highScenario |-> store.at["highScenario"]],
         baseTCO |-> objectAt(store, "baseTCO"),
         scenario |-> scenarioAt(store, "scenario")]

calculateSensitivity(baseTCO, scenario, context, parameter, perturbationPercent, t1, t2, t3) ==
    CHOOSE result \in
        {sensitivityOf(store, baseTCO, scenario, context, t1, t2, t3) :
            store \in {executeFrom(callerStore(baseTCO, scenario),
                                   statements(parameter, perturbationPercent), 1)}} : TRUE

\* ((b - a) / a) * 100; NaN * 100 is NaN and an infinity times 100 is itself
percentageChangeOf(a, b) ==
    LET q == Divide(Minus(b, a), a)
    IN  IF IsFinite(q) THEN Times(q, Num(100, 1)) ELSE q

\* every candidate entry pushed, whether or not the two values differ
SelectDiffsAll(candidates, i) ==
    [k \in 1 .. Len(candidates) |->
        [parameter |-> candidates[k].parameter,
         valueA |-> candidates[k].valueA,
         valueB |-> candidates[k].valueB]]

RECURSIVE SelectDiffs(_, _)
\* the entries pushed, in order, among the candidate entries
SelectDiffs(candidates, i) ==
    IF i > Len(candidates)
    THEN << >>
    ELSE IF candidates[i].differs
         THEN << [parameter |-> candidates[i].parameter,
                  valueA |-> candidates[i].valueA,
                  valueB |-> candidates[i].valueB] >> \o SelectDiffs(candidates, i + 1)
         ELSE SelectDiffs(candidates, i + 1)

compareScenarios(breakdownA, breakdownB, scenarioA, scenarioB) ==
    LET deltas ==
            [baseTCO |-> Minus(breakdownB.totals.baseTCO, breakdownA.totals.baseTCO),
             adjustments |-> Minus(breakdownB.totals.adjustments, breakdownA.totals.adjustments),
             compliance |-> Minus(breakdownB.totals.compliance, breakdownA.totals.compliance),
             security |-> Minus(breakdownB.totals.security, breakdownA.totals.security),
             risk |-> Minus(breakdownB.totals.risk, breakdownA.totals.risk),
             grandTotal |-> Minus(breakdownB.totals.grandTotal, breakdownA.totals.grandTotal),
             percentageChange |-> percentageChangeOf(breakdownA.totals.grandTotal,
                                                     breakdownB.totals.grandTotal)]
        onOff(b) == IF b THEN "Enabled" ELSE "Disabled"
        candidates ==
            << [parameter |-> "Region", differs |-> scenarioA.region # scenarioB.region,
                valueA |-> scenarioA.region, valueB |-> scenarioB.region],
               [parameter |-> "Year", differs |-> scenarioA.time.year # scenarioB.time.year,
                valueA |-> scenarioA.time.year, valueB |-> scenarioB.time.year],
               [parameter |-> "Workload Class",
                differs |-> scenarioA.workload.utilizationClass
                                # scenarioB.workload.utilizationClass,
                valueA |-> scenarioA.workload.utilizationClass,
                valueB |-> scenarioB.workload.utilizationClass],
               [parameter |-> "AI Mode",
                differs |-> scenarioA.workload.aiEnabled # scenarioB.workload.aiEnabled,
                valueA |-> onOff(scenarioA.workload.aiEnabled),
                valueB |-> onOff(scenarioB.workload.aiEnabled)],
               [parameter |-> "Regulatory Intensity",
                differs |-> scenarioA.regulatoryIntensity # scenarioB.regulatoryIntensity,
                valueA |-> scenarioA.regulatoryIntensity,
                valueB |-> scenarioB.regulatoryIntensity],
               [parameter |-> "Security Investment",
                differs |-> scenarioA.security.annualInvestment
                                # scenarioB.security.annualInvestment,
                valueA |-> scenarioA.security.annualInvestment,
                valueB |-> scenarioB.security.annualInvestment] >>
    IN  [scenarioA |-> [id |-> scenarioA.id, name |-> scenarioA.name,
                        parameters |-> scenarioA, breakdown |-> breakdownA],
         scenarioB |-> [id |-> scenarioB.id, name |-> scenarioB.name,
                        parameters |-> scenarioB, breakdown |-> breakdownB],
         deltas |-> deltas,
         parameterDifferences |-> SelectDiffs(candidates, 1)]

(***************************************************************************)
(* Validation utilities (testScenarios.ts)                                 *)
(***************************************************************************)
\* the messages pushed, in order, for the totals that are negative
validateNonNegativeCosts(breakdown) ==
    LET message(total, text) == IF Less(total, Zero) THEN << text >> ELSE << >>
        errors == message(breakdown.totals.baseTCO, "Base TCO is negative")
                  \o message(breakdown.totals.compliance, "Compliance costs are negative")
                  \o message(breakdown.totals.security, "Security costs are negative")
                  \o message(breakdown.totals.risk, "Risk costs are negative")
                  \o message(breakdown.totals.grandTotal, "Grand total is negative")
    IN  [valid |-> Len(errors) = 0, errors |-> errors]

(***************************************************************************)
(* Inputs the callers draw from                                            *)
(***************************************************************************)
MaxYearsFromBaseline == 1

\* scenario years around the baseline year, before and after it
Years == (baselineYear - MaxYearsFromBaseline) .. (baselineYear + MaxYearsFromBaseline)

\* escalation rates within [0, 0.2]
EscalationRates == {Zero, Num(2, 10)}

\* shock factors within [1, 3], or not set
ShockFactors == {Undefined, Num(15, 10)}

\* general security investment pools
Investments == {Zero, Num(100000, 1), Num(maxInvestment, 1)}

\* total security investments handed to calculateRiskCosts: none, below, at
\* and beyond the saturation point
RiskInvestments ==
    {Zero, Num(referenceInvestment, 1), Num(217500, 1), Num(maxInvestment, 1),
     Num(1000000, 1)}

\* maximum security reductions within [0, 1]
MaxSecurityReductions == {Zero, Num(8, 10), One}

\* hourly rates for documentation work: the default and a higher one
HourlyRates == {Num(defaultLaborHourlyRate, 1), Num(100, 1)}

\* employee counts: none, the default and a larger staff
EmployeeCounts == {Zero, Num(defaultEmployeeCount, 1), Num(200, 1)}

\* base incident probabilities within [0, 1]
IncidentProbabilities == {Zero, Num(15, 100), One}

\* average impact costs, from none
ImpactCosts == {Zero, Num(500000, 1)}

\* perturbation fractions of the sensitivity analysis (default 0.2)
Perturbations == {Num(2, 10)}

SensitivityParameters == {"energy", "labor", "security"}

\* readings of the system clock
Instants == {0, 1}

\* pre-priced infrastructure totals handed to the engine
BaseInputs ==
    {[land |-> Num(300000, 1), servers |-> Num(400000, 1), storage |-> Num(100000, 1),
      network |-> Num(50000, 1), powerDistribution |-> Num(200000, 1),
      energy |-> Num(100000, 1), software |-> Num(20000, 1), labor |-> Num(200000, 1)]}

Contexts ==
    {[nodeCount |-> Num(100, 1), totalStorageTB |-> Num(250, 1)]}

\* scenarios: every combination of the axis settings, with the security rates
\* and risk parameters of DEFAULT_SCENARIO_VALUES
Scenarios ==
    {[id |-> "s1",
      name |-> "Scenario 1",
      region |-> region,
      time |-> [year |-> year, escalationRate |-> escalationRate,
                shockFactor |-> shockFactor, shockEnabled |-> shockEnabled],
      workload |-> [utilizationClass |-> utilizationClass, aiEnabled |-> aiEnabled],
      regulatoryIntensity |-> regulatoryIntensity,
      security |-> [annualInvestment |-> annualInvestment,
                    siemPerNode |-> Num(500, 1),
                    iamPerUser |-> Num(100, 1),
                    encryptionPerTB |-> Num(50, 1),
                    incidentResponseRetainer |-> Num(50000, 1),
                    userCount |-> Num(50, 1)],
      risk |-> [baseIncidentProbability |-> Num(15, 100),
                averageImpactCost |-> Num(500000, 1),
                maxSecurityReduction |-> Num(8, 10)]] :
        region \in Regions, year \in Years, escalationRate \in EscalationRates,
        shockFactor \in ShockFactors, shockEnabled \in BOOLEAN,
        utilizationClass \in WorkloadClasses, aiEnabled \in BOOLEAN,
        regulatoryIntensity \in RegulatoryIntensities, annualInvestment \in Investments}

\* the longest list handed to combineMultipliers
MaxSets == 3

RECURSIVE ListsOver(_, _)
\* the lists of at most n elements of pool
ListsOver(pool, n) ==
    IF n = 0
    THEN {<< >>}
    ELSE LET shorter == ListsOver(pool, n - 1)
         IN  shorter \cup {Append(list, element) : list \in shorter, element \in pool}

\* multiplier sets a caller combines: the region and time sets of scenario s
\* and the set of an AI-accelerated High workload
MultiplierSetsOf(s) ==
    {getRegionMultipliers(s.region),
     getTimeMultipliers(s.time),
     getWorkloadMultipliers([utilizationClass |-> "High", aiEnabled |-> TRUE])}

\* a breakdown whose totals are all zero
ZeroBreakdown ==
    [scenarioId |-> "s0",
     totals |-> [baseTCO |-> Zero, adjustments |-> Zero, compliance |-> Zero,
                 security |-> Zero, risk |-> Zero, grandTotal |-> Zero]]

\* a second scenario for a comparison: another region, a later year and the
\* investment pool raised by 50,000
otherScenario(s) ==
    [s EXCEPT !.id = "s2",
              !.name = "Scenario 2",
              !.region = IF s.region = "EU" THEN "US" ELSE "EU",
              !.time.year = s.time.year + 1,
              !.security.annualInvestment = Plus(s.security.annualInvestment, Num(50000, 1))]

\* the scenarios a caller compares scenario s with: s itself, otherScenario(s)
\* with and without another escalation rate, and scenarios that differ from
\* s in one setting only
comparedWith(s) ==
    LET otherRate == IF s.time.escalationRate = Zero THEN Num(2, 10) ELSE Zero
    IN  {s,
         otherScenario(s),
         [otherScenario(s) EXCEPT !.time.escalationRate = otherRate],
         [s EXCEPT !.time.escalationRate = otherRate],
         [s EXCEPT !.time.shockEnabled = ~ @,
                   !.time.shockFactor = IF @ = Undefined THEN Num(15, 10) ELSE Undefined],
         [s EXCEPT !.workload.utilizationClass = "High"],
         [s EXCEPT !.workload.aiEnabled = TRUE],
         [s EXCEPT !.regulatoryIntensity = "High"],
         [s EXCEPT !.security.siemPerNode = Num(600, 1),
                   !.risk.averageImpactCost = Num(750000, 1)]}

(***************************************************************************)
(* State                                                                   *)
(***************************************************************************)
VARIABLES
    baseTCO,    \* the caller's BaseTCOInput object
    scenario,   \* the caller's ScenarioParameters object
    context,    \* the caller's ComputationContext object
    clock,      \* the latest reading of the system clock
    last,       \* the page's latest computeScenarioTCO call: arguments and result
    prev,       \* the page's computeScenarioTCO call before that
    out,        \* a direct call of an engine function: arguments and result
    scenarios,            \* ScenarioProvider: the scenario list
    activeScenarioId,     \* ScenarioProvider: the id of the active scenario, or null
    computationResults,   \* ScenarioProvider: the map from scenario id to breakdown
    isInitialized,        \* ScenarioProvider: the load effect has run
    effectPending,        \* the page's compute effect is due after a render
    uuids                 \* the number of identifiers uuidv4 has issued

storeVars ==
    << scenarios, activeScenarioId, computationResults, isInitialized, effectPending, uuids >>

vars == << baseTCO, scenario, context, clock, last, prev, out, storeVars >>

NoCall == [op |-> "none"]

Null == "null"

\* new Map()
EmptyMap == [key \in {} |-> Null]

\* the provider's state before its load effect has run: useState([]),
\* useState(null), useState(new Map()), useState(false)
Unmounted ==
    /\ scenarios = << >>
    /\ activeScenarioId = Null
    /\ computationResults = EmptyMap
    /\ isInitialized = FALSE
    /\ effectPending = FALSE
    /\ uuids = 0

Init ==
    /\ baseTCO \in BaseInputs
    /\ scenario \in Scenarios
    /\ context \in Contexts
    /\ clock = 0
    /\ last = NoCall
    /\ prev = NoCall
    /\ out = NoCall
    /\ Unmounted

(***************************************************************************)
(* The page (page.tsx): the compute effect calls computeScenarioTCO on the *)
(* active scenario and keeps the breakdown; it runs again whenever one of  *)
(* its dependencies is set again.                                          *)
(***************************************************************************)
computeEffect ==
    \E t \in Instants :
        /\ t >= clock
        /\ clock' = t
        /\ last' = [op |-> "computeScenarioTCO",
                    baseTCO |-> baseTCO, scenario |-> scenario, context |-> context,
                    result |-> computeScenarioTCO(baseTCO, scenario, context, t)]
        /\ prev' = last
        /\ UNCHANGED << baseTCO, scenario, context, out, storeVars >>

Next ==
    computeEffect

Spec == Init /\ [][Next]_vars

(***************************************************************************)
(* Direct calls of the engine's functions.  The engine keeps no state      *)
(* between calls, so each behaviour is one call on the inputs drawn at the *)
(* start: scenarios of the Medium workload class and regulatory intensity  *)
(* without AI mode, over every region, time setting and investment pool.   *)
(***************************************************************************)
CallScenarios ==
    {s \in Scenarios : /\ s.workload.utilizationClass = "Medium"
                       /\ ~ s.workload.aiEnabled
                       /\ s.regulatoryIntensity = "Medium"}

InitCalls ==
    /\ baseTCO \in BaseInputs
    /\ scenario \in CallScenarios
    /\ context \in Contexts
    /\ clock = 0
    /\ last = NoCall
    /\ prev = NoCall
    /\ out = NoCall
    /\ Unmounted

callComputeScenarioTCO ==
    \E t \in Instants :
        /\ out.op = "none"
        /\ t >= clock
        /\ clock' = t
        /\ out' = [op |-> "computeScenarioTCO",
                   baseTCO |-> baseTCO, scenario |-> scenario, context |-> context,
                   result |-> computeScenarioTCO(baseTCO, scenario, context, t)]
        /\ UNCHANGED << baseTCO, scenario, context, last, prev, storeVars >>

callCalculateSensitivity ==
    \E parameter \in SensitivityParameters, p \in Perturbations :
      \E t1 \in {t \in Instants : clock <= t} :
        \E t2 \in {t \in Instants : t1 <= t} :
          \E t3 \in {t \in Instants : t2 <= t} :
        /\ out.op = "none"
        /\ \E r \in {calculateSensitivity(baseTCO, scenario, context, parameter, p,
                                          t1, t2, t3)} :
               /\ out' = [op |-> "calculateSensitivity",
                          baseTCO |-> baseTCO, scenario |-> scenario, context |-> context,
                          parameter |-> parameter, perturbationPercent |-> p,
                          lowInput |-> r.lowInput, highInput |-> r.highInput,
                          lowScenario |-> r.lowScenario, highScenario |-> r.highScenario,
                          refs |-> r.refs,
                          result |-> [low |-> r.breakdown["low"],
                                      base |-> r.breakdown["base"],
                                      high |-> r.breakdown["high"]]]
               /\ baseTCO' = r.baseTCO
               /\ scenario' = r.scenario
        /\ clock' = t3
        /\ UNCHANGED << context, last, prev, storeVars >>

callCompareScenarios ==
    \E zeroA, zeroB \in BOOLEAN, scenarioB \in comparedWith(scenario) :
        /\ out.op = "none"
        /\ \E breakdown \in {[s \in {scenario, scenarioB} |->
                                  computeScenarioTCO(baseTCO, s, context, clock)]} :
               \E breakdownA \in {IF zeroA THEN ZeroBreakdown ELSE breakdown[scenario]},
                  breakdownB \in {IF zeroB THEN ZeroBreakdown ELSE breakdown[scenarioB]} :
                   out' = [op |-> "compareScenarios",
                           breakdownA |-> breakdownA, breakdownB |-> breakdownB,
                           scenarioA |-> scenario, scenarioB |-> scenarioB,
                           result |-> compareScenarios(breakdownA, breakdownB,
                                                       scenario, scenarioB)]
        /\ UNCHANGED << baseTCO, scenario, context, clock, last, prev, storeVars >>

callCalculateRiskCosts ==
    \E totalSecurityInvestment \in RiskInvestments,
       maxSecurityReduction \in MaxSecurityReductions,
       baseIncidentProbability \in IncidentProbabilities,
       averageImpactCost \in ImpactCosts :
        /\ out.op = "none"
        /\ LET s == [scenario EXCEPT
                         !.risk = [baseIncidentProbability |-> baseIncidentProbability,
                                   averageImpactCost |-> averageImpactCost,
                                   maxSecurityReduction |-> maxSecurityReduction]]
           IN  out' = [op |-> "calculateRiskCosts",
                       scenario |-> s, totalSecurityInvestment |-> totalSecurityInvestment,
                       result |-> calculateRiskCosts(s, totalSecurityInvestment)]
        /\ UNCHANGED << baseTCO, scenario, context, clock, last, prev, storeVars >>

callGetTimeMultipliers ==
    /\ out.op = "none"
    /\ out' = [op |-> "getTimeMultipliers", time |-> scenario.time,
               result |-> getTimeMultipliers(scenario.time)]
    /\ UNCHANGED << baseTCO, scenario, context, clock, last, prev, storeVars >>

callCalculateEscalationFactor ==
    /\ out.op = "none"
    /\ out' = [op |-> "calculateEscalationFactor",
               targetYear |-> scenario.time.year,
               escalationRate |-> scenario.time.escalationRate,
               result |-> calculateEscalationFactor(scenario.time.year,
                                                    scenario.time.escalationRate)]
    /\ UNCHANGED << baseTCO, scenario, context, clock, last, prev, storeVars >>

callCombineMultipliers ==
    \E multiplierSets \in ListsOver(MultiplierSetsOf(scenario), MaxSets) :
        /\ out.op = "none"
        /\ out' = [op |-> "combineMultipliers", multiplierSets |-> multiplierSets,
                   result |-> combineMultipliers(multiplierSets)]
        /\ UNCHANGED << baseTCO, scenario, context, clock, last, prev, storeVars >>

\* both compliance calculators called for the same regulatory intensity
callCalculateComplianceCosts ==
    \E intensity \in RegulatoryIntensities, laborHourlyRate \in HourlyRates,
       employeeCount \in EmployeeCounts :
        /\ out.op = "none"
        /\ LET s == [scenario EXCEPT !.regulatoryIntensity = intensity]
           IN  out' = [op |-> "calculateComplianceCosts",
                       scenario |-> s, laborHourlyRate |-> laborHourlyRate,
                       employeeCount |-> employeeCount,
                       result |-> calculateComplianceCosts(s, laborHourlyRate),
                       second |-> totalComplianceCosts(intensity, employeeCount)]
        /\ UNCHANGED << baseTCO, scenario, context, clock, last, prev, storeVars >>

NextCalls ==
    \/ callComputeScenarioTCO
    \/ callCalculateSensitivity
    \/ callCompareScenarios
    \/ callCalculateRiskCosts
    \/ callGetTimeMultipliers
    \/ callCalculateEscalationFactor
    \/ callCombineMultipliers
    \/ callCalculateComplianceCosts

SpecCalls == InitCalls /\ [][NextCalls]_vars

(***************************************************************************)
(* The scenario store (scenarioContext.tsx, scenarioStorage.ts).  A stored *)
(* scenario carries its id, name, isBaseline flag and the engine's         *)
(* parameters; description, createdAt and updatedAt are read by no store   *)
(* operation and by no engine function, and are left out.  An object is a  *)
(* record, and a field the object does not have is a field outside the     *)
(* record's domain.  Every operation renders the page, whose compute       *)
(* effect then runs before the next operation: it runs whenever the active *)
(* scenario is a new object, and on an unchanged scenario it stores the    *)
(* same breakdown again.  Identifiers are numbered in the order uuidv4     *)
(* issued them, an earlier session's included.                             *)
(***************************************************************************)
\* the most identifiers uuidv4 issues in one behaviour
MaxUuids == 3

\* uuidv4() when n identifiers have been issued: one never returned before
uuidv4(n) ==
    "uuid-" \o ToString(n + 1)

\* object.field !== undefined
has(object, field) ==
    field \in DOMAIN object

\* { ...object, ...updates }
spreadOver(object, updates) ==
    [field \in DOMAIN object \cup DOMAIN updates |->
        IF field \in DOMAIN updates THEN updates[field] ELSE object[field]]

\* null where a scenario is expected
NullScenario == [id |-> Null]

\* list.find((s) => s.id === id) || null
findScenario(list, id) ==
    IF \E i \in DOMAIN list : list[i].id = id
    THEN list[CHOOSE i \in DOMAIN list :
                  /\ list[i].id = id
                  /\ \A j \in 1..(i - 1) : list[j].id # id]
    ELSE NullScenario

\* the ids of the scenarios in list
listed(list) ==
    {list[i].id : i \in DOMAIN list}

DEFAULT_SCENARIO_VALUES ==
    [region |-> "US",
     time |-> [year |-> 2024, escalationRate |-> Num(25, 1000),
               shockFactor |-> Num(15, 10), shockEnabled |-> FALSE],
     workload |-> [utilizationClass |-> "Medium", aiEnabled |-> FALSE],
     regulatoryIntensity |-> "Medium",
     security |-> [annualInvestment |-> Num(100000, 1),
                   siemPerNode |-> Num(500, 1),
                   iamPerUser |-> Num(100, 1),
                   encryptionPerTB |-> Num(50, 1),
                   incidentResponseRetainer |-> Num(50000, 1),
                   userCount |-> Num(50, 1)],
     risk |-> [baseIncidentProbability |-> Num(15, 100),
               averageImpactCost |-> Num(500000, 1),
               maxSecurityReduction |-> Num(8, 10)],
     isBaseline |-> FALSE]

\* createDefaultScenario(name) when n identifiers have been issued; the
\* empty name stands for a call without a name
createDefaultScenario(name, n) ==
    [id |-> uuidv4(n),
     name |-> IF name = "" THEN "New Scenario" ELSE name,
     description |-> "",
     region |-> DEFAULT_SCENARIO_VALUES.region,
     time |-> DEFAULT_SCENARIO_VALUES.time,
     workload |-> DEFAULT_SCENARIO_VALUES.workload,
     regulatoryIntensity |-> DEFAULT_SCENARIO_VALUES.regulatoryIntensity,
     security |-> DEFAULT_SCENARIO_VALUES.security,
     risk |-> DEFAULT_SCENARIO_VALUES.risk,
     isBaseline |-> FALSE]

\* the default scenario the provider creates for an empty list
defaultBaseline(n) ==
    [createDefaultScenario("Default Scenario", n) EXCEPT !.isBaseline = TRUE]

validateScenario(s) ==
    /\ has(s, "id") /\ s.id # ""
    /\ has(s, "name") /\ s.name # ""
    /\ has(s, "region") /\ s.region \in {"EU", "US", "Global"}
    /\ has(s, "time")
    /\ has(s, "workload")
    /\ has(s, "security")
    /\ has(s, "risk")

\* json is the outcome of JSON.parse: json.parses is FALSE for a SyntaxError,
\* and json.data is the parsed object otherwise
importScenarioFromJSON(json) ==
    LET validated(s) == IF validateScenario(s) THEN s ELSE NullScenario
        unwrapped(data) ==
            IF has(data, "type") /\ data.type = "single_scenario" /\ has(data, "scenario")
            THEN validated(data.scenario)
            ELSE IF has(data, "id") /\ data.id # "" /\ has(data, "name") /\ data.name # ""
                 THEN validated(data)
                 ELSE NullScenario
    IN  IF json.parses THEN unwrapped(json.data) ELSE NullScenario

\* computeScenarioTCO(baseTCO, s, context) throws a TypeError: a table of
\* getRegionMultipliers, getWorkloadMultipliers or getRegulatoryMultipliers
\* has no entry for the scenario's setting, and a property of undefined is
\* read
throwsTypeError(s) ==
    \/ ~ has(s, "region")
    \/ s.region \notin DOMAIN REGION_MULTIPLIERS
    \/ ~ has(s.workload, "utilizationClass")
    \/ s.workload.utilizationClass \notin DOMAIN WORKLOAD_PARAMETERS
    \/ ~ has(s, "regulatoryIntensity")
    \/ s.regulatoryIntensity \notin DOMAIN REGULATORY_PARAMETERS

\* names createScenario is called with; the empty name is a call without one
NewNames == {""}

\* updates the components pass to updateScenario
Updates == {[description |-> "Edited"]}

\* what localStorage holds when the provider mounts: nothing, or the list an
\* earlier session saved
StoredLists ==
    {<< >>,
     << defaultBaseline(0),
        [createDefaultScenario("Scenario B", 1) EXCEPT !.regulatoryIntensity = "High"] >>}

\* the files a user imports: an export of a baseline scenario, a scenario
\* object written by hand without regulatoryIntensity, a scenario of an
\* unknown region, a scenario without its risk object, an export of several
\* scenarios, and a file that is not JSON
ImportedDocuments ==
    LET exported == [createDefaultScenario("EU High", 0) EXCEPT
                         !.id = "exported-1", !.region = "EU",
                         !.regulatoryIntensity = "High", !.isBaseline = TRUE]
        byHand == [id |-> "by-hand-1", name |-> "By hand", region |-> "US",
                   time |-> DEFAULT_SCENARIO_VALUES.time,
                   workload |-> DEFAULT_SCENARIO_VALUES.workload,
                   security |-> DEFAULT_SCENARIO_VALUES.security,
                   risk |-> DEFAULT_SCENARIO_VALUES.risk]
    IN  {[parses |-> TRUE, data |-> [version |-> "1.0", type |-> "single_scenario",
                                     scenario |-> exported]],
         [parses |-> TRUE, data |-> byHand],
         [parses |-> TRUE, data |-> [exported EXCEPT !.region = "Mars"]],
         [parses |-> TRUE, data |-> [id |-> "by-hand-2", name |-> "No risk", region |-> "US",
                                     time |-> DEFAULT_SCENARIO_VALUES.time,
                                     workload |-> DEFAULT_SCENARIO_VALUES.workload,
                                     security |-> DEFAULT_SCENARIO_VALUES.security]],
         [parses |-> TRUE, data |-> [version |-> "1.0", type |-> "multiple_scenarios",
                                     scenarios |-> << exported >>]],
         [parses |-> FALSE, data |-> << >>]}

InitStore ==
    /\ baseTCO \in BaseInputs
    /\ scenario = NullScenario
    /\ context \in Contexts
    /\ clock = 0
    /\ last = NoCall
    /\ prev = NoCall
    /\ out = NoCall
    /\ Unmounted

\* the provider's load effect, run once on mount
loadEffect ==
    /\ ~ isInitialized
    /\ \E stored \in StoredLists :
           IF Len(stored) > 0
           THEN /\ scenarios' = stored
                /\ activeScenarioId' = stored[1].id
                /\ uuids' = Len(stored)
           ELSE \E defaultScenario \in {defaultBaseline(uuids)} :
                    /\ scenarios' = << defaultScenario >>
                    /\ activeScenarioId' = defaultScenario.id
                    /\ uuids' = uuids + 1
    /\ isInitialized' = TRUE
    /\ effectPending' = TRUE
    /\ UNCHANGED << baseTCO, scenario, context, clock, last, prev, out, computationResults >>

createScenario(name) ==
    /\ uuids < MaxUuids
    /\ \E newScenario \in {createDefaultScenario(name, uuids)} :
           /\ scenarios' = Append(scenarios, newScenario)
           /\ activeScenarioId' = newScenario.id
    /\ uuids' = uuids + 1
    /\ UNCHANGED computationResults

updateScenario(id, updates) ==
    /\ scenarios' = [i \in DOMAIN scenarios |->
                        IF scenarios[i].id = id
                        THEN spreadOver(scenarios[i], updates)
                        ELSE scenarios[i]]
    /\ UNCHANGED << activeScenarioId, computationResults, uuids >>

\* deleteScenario without the replacement of an emptied list
deleteScenarioLeavingEmpty(id) ==
    /\ \E filtered \in {SelectSeq(scenarios, LAMBDA s : s.id # id)} :
           /\ scenarios' = filtered
           /\ activeScenarioId' = IF activeScenarioId = id /\ Len(filtered) > 0
                                  THEN filtered[1].id
                                  ELSE activeScenarioId
    /\ computationResults' = [key \in DOMAIN computationResults \ {id} |->
                                  computationResults[key]]
    /\ UNCHANGED uuids

\* deleteScenario without the selection of another active scenario
deleteScenarioKeepingActive(id) ==
    /\ \E filtered \in {SelectSeq(scenarios, LAMBDA s : s.id # id)} :
           IF Len(filtered) = 0
           THEN /\ uuids < MaxUuids
                /\ \E defaultScenario \in {defaultBaseline(uuids)} :
                       /\ scenarios' = << defaultScenario >>
                       /\ activeScenarioId' = defaultScenario.id
                /\ uuids' = uuids + 1
           ELSE /\ scenarios' = filtered
                /\ UNCHANGED << activeScenarioId, uuids >>
    /\ computationResults' = [key \in DOMAIN computationResults \ {id} |->
                                  computationResults[key]]

\* deleteScenario without the removal of the cached result
deleteScenarioKeepingResult(id) ==
    /\ \E filtered \in {SelectSeq(scenarios, LAMBDA s : s.id # id)} :
           IF Len(filtered) = 0
           THEN /\ uuids < MaxUuids
                /\ \E defaultScenario \in {defaultBaseline(uuids)} :
                       /\ scenarios' = << defaultScenario >>
                       /\ activeScenarioId' = defaultScenario.id
                /\ uuids' = uuids + 1
           ELSE /\ scenarios' = filtered
                /\ activeScenarioId' = IF activeScenarioId = id
                                       THEN filtered[1].id
                                       ELSE activeScenarioId
                /\ uuids' = uuids
    /\ UNCHANGED computationResults

deleteScenario(id) ==
    /\ \E filtered \in {SelectSeq(scenarios, LAMBDA s : s.id # id)} :
           IF Len(filtered) = 0
           THEN /\ uuids < MaxUuids
                /\ \E defaultScenario \in {defaultBaseline(uuids)} :
                       /\ scenarios' = << defaultScenario >>
                       /\ activeScenarioId' = defaultScenario.id
                /\ uuids' = uuids + 1
           ELSE /\ scenarios' = filtered
                /\ activeScenarioId' = IF activeScenarioId = id
                                       THEN filtered[1].id
                                       ELSE activeScenarioId
                /\ uuids' = uuids
    /\ computationResults' = [key \in DOMAIN computationResults \ {id} |->
                                  computationResults[key]]

\* cloneScenario(id) called without a new name
cloneScenario(id) ==
    /\ uuids < MaxUuids
    /\ \E original \in {findScenario(scenarios, id)} :
           IF original.id = Null
           THEN UNCHANGED << scenarios, activeScenarioId, uuids >>
           ELSE \E cloned \in {spreadOver(original,
                                          [id |-> uuidv4(uuids),
                                           name |-> original.name \o " (Copy)",
                                           isBaseline |-> FALSE])} :
                    /\ scenarios' = Append(scenarios, cloned)
                    /\ activeScenarioId' = cloned.id
                    /\ uuids' = uuids + 1
    /\ UNCHANGED computationResults

setActiveScenario(id) ==
    /\ activeScenarioId' = id
    /\ UNCHANGED << scenarios, computationResults, uuids >>

\* setBaseline without the reset of the other scenarios' flags
setBaselineAdding(id) ==
    /\ scenarios' = [i \in DOMAIN scenarios |->
                        IF scenarios[i].id = id
                        THEN spreadOver(scenarios[i], [isBaseline |-> TRUE])
                        ELSE scenarios[i]]
    /\ UNCHANGED << activeScenarioId, computationResults, uuids >>

setBaseline(id) ==
    /\ scenarios' = [i \in DOMAIN scenarios |->
                        spreadOver(scenarios[i], [isBaseline |-> scenarios[i].id = id])]
    /\ UNCHANGED << activeScenarioId, computationResults, uuids >>

importScenario(json) ==
    /\ uuids < MaxUuids
    /\ \E imported \in {importScenarioFromJSON(json)} :
           IF imported.id = Null
           THEN UNCHANGED << scenarios, activeScenarioId, uuids >>
           ELSE \E newScenario \in {spreadOver(imported,
                                               [id |-> uuidv4(uuids),
                                                name |-> imported.name \o " (Imported)",
                                                isBaseline |-> FALSE])} :
                    /\ scenarios' = Append(scenarios, newScenario)
                    /\ activeScenarioId' = newScenario.id
                    /\ uuids' = uuids + 1
    /\ UNCHANGED computationResults

\* Map.set(key, value) on a copy of map
setComputationResult(map, id, result) ==
    [key \in DOMAIN map \cup {id} |-> IF key = id THEN result ELSE map[key]]

\* the page's compute effect on the store's active scenario: the breakdown
\* goes to setComputationResult, and an exception of the engine is caught
\* and logged.  The system clock stands still in a behaviour of the store.
computeActiveScenario ==
    \E activeScenario \in {findScenario(scenarios, activeScenarioId)} :
        /\ effectPending
        /\ effectPending' = FALSE
        /\ IF activeScenario.id = Null \/ throwsTypeError(activeScenario)
           THEN UNCHANGED computationResults
           ELSE computationResults' =
                    setComputationResult(computationResults, activeScenario.id,
                                         computeScenarioTCO(baseTCO, activeScenario,
                                                            context, clock))
        /\ UNCHANGED << baseTCO, scenario, context, clock, last, prev, out,
                        scenarios, activeScenarioId, isInitialized, uuids >>

\* a component may call the store once the provider is initialized and the
\* page's effects have run; the call renders the page again
rendered ==
    /\ isInitialized
    /\ ~ effectPending
    /\ effectPending' = TRUE
    /\ UNCHANGED << baseTCO, scenario, context, clock, last, prev, out, isInitialized >>

callCreateScenario ==
    \E name \in NewNames : rendered /\ createScenario(name)

callUpdateScenario ==
    \E id \in listed(scenarios), updates \in Updates : rendered /\ updateScenario(id, updates)

callDeleteScenario ==
    \E id \in listed(scenarios) : rendered /\ deleteScenario(id)

callCloneScenario ==
    \E id \in listed(scenarios) : rendered /\ cloneScenario(id)

callSetActiveScenario ==
    \E id \in listed(scenarios) : rendered /\ setActiveScenario(id)

callSetBaseline ==
    \E id \in listed(scenarios) : rendered /\ setBaseline(id)

callImportScenario ==
    \E json \in ImportedDocuments : rendered /\ importScenario(json)

NextStore ==
    \/ loadEffect
    \/ callCreateScenario
    \/ callUpdateScenario
    \/ callDeleteScenario
    \/ callCloneScenario
    \/ callSetActiveScenario
    \/ callSetBaseline
    \/ callImportScenario
    \/ computeActiveScenario

SpecStore == InitStore /\ [][NextStore]_vars

(***************************************************************************)
(* Properties                                                              *)
(***************************************************************************)
\* the breakdown the page's latest computeScenarioTCO call returned
computed ==
    last.op = "computeScenarioTCO"

\* C1: the breakdown computeScenarioTCO returns has totals.grandTotal equal to
\* totals.baseTCO + totals.adjustments + totals.compliance + totals.security
\* + totals.risk, and those five totals are baseTCO.total, adjustments.total,
\* complianceCosts.total, securityCosts.total and riskCosts.expectedAnnualLoss
\* of the same breakdown.
DecompositionIdentity ==
    computed =>
        LET r == last.result
        IN  /\ r.totals.grandTotal =
                   Plus(Plus(Plus(Plus(r.totals.baseTCO, r.totals.adjustments),
                        r.totals.compliance), r.totals.security), r.totals.risk)
            /\ r.totals.baseTCO = r.baseTCO.total
            /\ r.totals.adjustments = r.adjustments.total
            /\ r.totals.compliance = r.complianceCosts.total
            /\ r.totals.security = r.securityCosts.total
            /\ r.totals.risk = r.riskCosts.expectedAnnualLoss

\* a breakdown in which every one of the five layers contributes to the sum
DecompositionWitness ==
    /\ computed
    /\ Less(Zero, last.result.totals.baseTCO)
    /\ Less(last.result.totals.adjustments, Zero)
    /\ Less(Zero, last.result.totals.compliance)
    /\ Less(Zero, last.result.totals.security)
    /\ Less(Zero, last.result.totals.risk)

\* the grand total computeScenarioTCO gives for the latest call's inputs with
\* scenario s in place of the call's scenario
grandTotalFor(s) ==
    computeScenarioTCO(last.baseTCO, s, last.context, clock).totals.grandTotal

\* C2: of two scenarios that differ only in security.annualInvestment, with
\* the same base costs and context, the one with the strictly larger
\* annualInvestment has a grandTotal that is not lower than the other's.
SecurityInvestmentMonotone ==
    computed =>
        \A annualInvestment \in Investments :
            Less(last.scenario.security.annualInvestment, annualInvestment) =>
                Leq(last.result.totals.grandTotal,
                    grandTotalFor([last.scenario EXCEPT
                                       !.security.annualInvestment = annualInvestment]))

\* the page's two latest computeScenarioTCO calls had equal arguments
sameArguments ==
    /\ last.op = "computeScenarioTCO"
    /\ prev.op = "computeScenarioTCO"
    /\ last.baseTCO = prev.baseTCO
    /\ last.scenario = prev.scenario
    /\ last.context = prev.context

ZeroBaselineSentinel ==
    (out.op = "compareScenarios" /\ out.breakdownA.totals.grandTotal = Zero) =>
        out.result.deltas.percentageChange \notin {NaN, Infinity, NegInfinity}

\* C5: computeScenarioTCO and calculateSensitivity leave every field of the
\* caller's baseTCO, scenario and context at the value it had before the
\* call, and the low and high perturbed inputs are objects of their own.
ArgumentsNotModified ==
    /\ out.op \in {"computeScenarioTCO", "calculateSensitivity"} =>
           /\ baseTCO = out.baseTCO
           /\ scenario = out.scenario
           /\ context = out.context
    /\ out.op = "calculateSensitivity" =>
           /\ Cardinality({"baseTCO", out.refs.lowInput, out.refs.highInput}) = 3
           /\ Cardinality({"scenario", out.refs.lowScenario, out.refs.highScenario}) = 3

\* a sensitivity call whose perturbed inputs differ from the caller's objects
ArgumentsNotModifiedWitness ==
    /\ out.op = "calculateSensitivity"
    /\ \/ out.lowInput # out.baseTCO /\ out.highInput # out.baseTCO
       \/ out.lowScenario # out.scenario /\ out.highScenario # out.scenario

\* C6: the securityReductionFactor of calculateRiskCosts lies in
\* [0, maxSecurityReduction], is 0 at investment 0, is exactly
\* maxSecurityReduction at investment 500,000 and above it, and does not
\* decrease when the investment grows.
RiskReductionBounds ==
    out.op = "calculateRiskCosts" =>
        LET factor == out.result.securityReductionFactor
            max == out.scenario.risk.maxSecurityReduction
            investment == out.totalSecurityInvestment
        IN  /\ Leq(Zero, factor)
            /\ Leq(factor, max)
            /\ investment = Zero => factor = Zero
            /\ Leq(Num(maxInvestment, 1), investment) => factor = max
            /\ \A more \in RiskInvestments :
                   Leq(investment, more) =>
                       Leq(factor,
                           calculateRiskCosts(out.scenario, more).securityReductionFactor)

\* a reduction strictly inside the range, from an investment below the cap
RiskReductionWitness ==
    /\ out.op = "calculateRiskCosts"
    /\ Less(Zero, out.totalSecurityInvestment)
    /\ Less(out.totalSecurityInvestment, Num(maxInvestment, 1))
    /\ Less(Zero, out.result.securityReductionFactor)
    /\ Less(out.result.securityReductionFactor, out.scenario.risk.maxSecurityReduction)

\* the escalation factor the specification gives for a year and a rate
clampedFactor(year, escalationRate) ==
    IF year <= baselineYear
    THEN One
    ELSE MathPow(Plus(One, escalationRate), year - baselineYear)

\* C7: for a year at or before 2024 the escalation factor is exactly 1, both
\* as calculateEscalationFactor returns it and as the labor and cooling time
\* multipliers (and the energy multiplier when shock is disabled) that
\* computeScenarioTCO uses; for year 2024+n, n > 0, it is (1+rate)^n.
EscalationClamp ==
    /\ out.op = "calculateEscalationFactor" =>
           out.result = clampedFactor(out.targetYear, out.escalationRate)
    /\ out.op = "getTimeMultipliers" =>
           LET factor == clampedFactor(out.time.year, out.time.escalationRate)
           IN  /\ out.result.labor = factor
               /\ out.result.cooling = factor
               /\ ~ out.time.shockEnabled => out.result.energy = factor
    /\ out.op = "computeScenarioTCO" =>
           LET time == out.scenario.time
           IN  ~ time.shockEnabled =>
                   out.result.multipliers.time.escalationFactor =
                       clampedFactor(time.year, time.escalationRate)

\* a breakdown with the risk layer and the grand total blanked
withoutRisk(breakdown) ==
    [breakdown EXCEPT !.riskCosts = Zero, !.totals.risk = Zero,
                      !.totals.grandTotal = Zero]

\* the investment the risk layer of the three breakdowns was given
securityInvestments ==
    LET r == out.result
        p == out.perturbationPercent
        pool == out.scenario.security.annualInvestment
    IN  /\ r.low.riskCosts.breakdown.securityInvestment =
               Plus(r.low.securityCosts.total, Times(pool, Minus(One, p)))
        /\ r.base.riskCosts.breakdown.securityInvestment =
               Plus(r.base.securityCosts.total, pool)
        /\ r.high.riskCosts.breakdown.securityInvestment =
               Plus(r.high.securityCosts.total, Times(pool, Plus(One, p)))

securitySensitivity ==
    out.op = "calculateSensitivity" /\ out.parameter = "security"

TimeAxisMonotone ==
    computed =>
        LET s == last.scenario
            grandTotal == last.result.totals.grandTotal
        IN  /\ s.time.year + 1 \in Years =>
                   Leq(grandTotal, grandTotalFor([s EXCEPT !.time.year = @ + 1]))
            /\ \A escalationRate \in EscalationRates :
                   Less(s.time.escalationRate, escalationRate) =>
                       Leq(grandTotal,
                           grandTotalFor([s EXCEPT !.time.escalationRate = escalationRate]))
            /\ (~ s.time.shockEnabled /\ s.time.shockFactor # Undefined) =>
                   Leq(grandTotal, grandTotalFor([s EXCEPT !.time.shockEnabled = TRUE]))

\* the order Low < Medium < High
rank(level) ==
    CASE level = "Low" -> 1 [] level = "Medium" -> 2 [] level = "High" -> 3

\* C10: moving workload.utilizationClass up the order Low < Medium < High,
\* switching workload.aiEnabled from false to true, or moving
\* regulatoryIntensity up the order Low < Medium < High never lowers the
\* grandTotal of computeScenarioTCO.
WorkloadRegulatoryMonotone ==
    computed =>
        LET s == last.scenario
            grandTotal == last.result.totals.grandTotal
        IN  /\ \A utilizationClass \in WorkloadClasses :
                   rank(s.workload.utilizationClass) < rank(utilizationClass) =>
                       Leq(grandTotal,
                           grandTotalFor([s EXCEPT !.workload.utilizationClass =
                                                       utilizationClass]))
            /\ ~ s.workload.aiEnabled =>
                   Leq(grandTotal, grandTotalFor([s EXCEPT !.workload.aiEnabled = TRUE]))
            /\ \A regulatoryIntensity \in RegulatoryIntensities :
                   rank(s.regulatoryIntensity) < rank(regulatoryIntensity) =>
                       Leq(grandTotal,
                           grandTotalFor([s EXCEPT !.regulatoryIntensity =
                                                       regulatoryIntensity]))

\* a Low, non-AI, Low-intensity scenario before the baseline year, whose grand
\* total each of the three moves strictly raises
WorkloadRegulatoryWitness ==
    /\ computed
    /\ last.scenario.time.year < baselineYear
    /\ last.scenario.workload = [utilizationClass |-> "Low", aiEnabled |-> FALSE]
    /\ last.scenario.regulatoryIntensity = "Low"
    /\ Less(last.result.totals.grandTotal,
            grandTotalFor([last.scenario EXCEPT !.workload.utilizationClass = "Medium"]))
    /\ Less(last.result.totals.grandTotal,
            grandTotalFor([last.scenario EXCEPT !.workload.aiEnabled = TRUE]))
    /\ Less(last.result.totals.grandTotal,
            grandTotalFor([last.scenario EXCEPT !.regulatoryIntensity = "Medium"]))


combinerCalled ==
    out.op = "combineMultipliers"

RECURSIVE productOf(_, _, _)
\* field f of the elements of list from the i-th on, multiplied together
productOf(list, f, i) ==
    IF i > Len(list) THEN One ELSE Times(list[i][f], productOf(list, f, i + 1))

\* the orders the elements of a list of n can be put in
Orders(n) ==
    {p \in [1 .. n -> 1 .. n] : \A i, j \in 1 .. n : p[i] = p[j] => i = j}

ExpectedLossNonNegative ==
    out.op = "calculateRiskCosts" =>
        LET risk == out.scenario.risk
            inUnit(x) == Leq(Zero, x) /\ Leq(x, One)
        IN  (/\ inUnit(risk.baseIncidentProbability)
             /\ Leq(Zero, risk.averageImpactCost)
             /\ inUnit(risk.maxSecurityReduction)
             /\ Leq(Zero, out.totalSecurityInvestment)) =>
                /\ Leq(Zero, out.result.expectedAnnualLoss)
                /\ Leq(Times(risk.baseIncidentProbability,
                             Minus(One, risk.maxSecurityReduction)),
                       out.result.adjustedProbability)
                /\ Leq(out.result.adjustedProbability, risk.baseIncidentProbability)

\* a certain incident, fully reducible, with an investment beyond the cap:
\* the loss is exactly 0, and the probability is at its lower bound
ExpectedLossWitness ==
    /\ out.op = "calculateRiskCosts"
    /\ out.scenario.risk.baseIncidentProbability = One
    /\ out.scenario.risk.maxSecurityReduction = One
    /\ Less(Zero, out.scenario.risk.averageImpactCost)
    /\ Less(Num(maxInvestment, 1), out.totalSecurityInvestment)
    /\ out.result.expectedAnnualLoss = Zero
    /\ out.result.adjustedProbability = Zero


\* the breakdown of a later computeScenarioTCO call, at clock reading t, on the
\* latest call's inputs with regulatory intensity i in place of the scenario's
atIntensity(i, t) ==
    computeScenarioTCO(last.baseTCO, [last.scenario EXCEPT !.regulatoryIntensity = i],
                       last.context, t)

\* a breakdown with the compliance layer, the regulatory multiplier and the
\* compliance and grand totals blanked
withoutCompliance(breakdown) ==
    [breakdown EXCEPT !.complianceCosts = Zero, !.multipliers.regulatory = Zero,
                      !.totals.compliance = Zero, !.totals.grandTotal = Zero]

\* the layers the regulatory intensity leaves alone, and those it changes
regulatoryFrame(a, b) ==
    /\ a.multipliers.combined = b.multipliers.combined
    /\ a.adjustments = b.adjustments
    /\ a.securityCosts = b.securityCosts
    /\ a.riskCosts = b.riskCosts
    /\ a.complianceCosts # b.complianceCosts
    /\ a.multipliers.regulatory # b.multipliers.regulatory
    /\ a.totals.compliance # b.totals.compliance
    /\ a.totals.grandTotal # b.totals.grandTotal

BaseFields ==
    {"land", "servers", "storage", "network", "powerDistribution", "energy",
     "software", "labor"}

\* C15: in every breakdown from computeScenarioTCO each of the eight baseTCO
\* fields equals the corresponding input field, and baseTCO.total
\* (= totals.baseTCO) equals the sum of exactly those eight fields, whatever
\* the region, time, workload or regulatory setting.
BaseCostsPassThrough ==
    computed =>
        LET r == last.result
            input == last.baseTCO
        IN  /\ \A f \in BaseFields : r.baseTCO[f] = input[f]
            /\ DOMAIN r.baseTCO = BaseFields \cup {"total"}
            /\ r.baseTCO.total =
                   Plus(Plus(Plus(input.labor, input.software),
                             Plus(input.energy, input.powerDistribution)),
                        Plus(Plus(input.network, input.storage),
                             Plus(input.servers, input.land)))
            /\ r.totals.baseTCO = r.baseTCO.total

\* a breakdown whose combined energy, labor and cooling multipliers are all
\* above 1 and whose base costs all stand as given
BaseCostsWitness ==
    /\ computed
    /\ Less(One, last.result.multipliers.combined.energy)
    /\ Less(One, last.result.multipliers.combined.labor)
    /\ Less(One, last.result.multipliers.combined.cooling)
    /\ Less(Zero, last.baseTCO.labor)
    /\ last.result.baseTCO.energy = last.baseTCO.energy
    /\ Less(Zero, last.result.adjustments.energyAdjustment)


\* the part of x above zero
positivePart(x) ==
    IF Less(Zero, x) THEN x ELSE Zero

\* C16: applyMultipliers computes energyAdjustment = base energy x
\* (combined.energy - 1), laborAdjustment = base labor x (combined.labor - 1),
\* coolingAdjustment = (base powerDistribution x 0.4) x (combined.cooling - 1)
\* and total = the sum of those three; the compliance and monitoring fields of
\* the multiplier set change none of the results, and the total is negative
\* exactly when the weighted deflation outweighs the inflation.
AdjustmentFormulas ==
    computed =>
        LET a == last.result.adjustments
            m == last.result.multipliers.combined
            b == last.baseTCO
            terms == << a.energyAdjustment, a.laborAdjustment, a.coolingAdjustment >>
            inflation == Plus(Plus(positivePart(terms[1]), positivePart(terms[2])),
                              positivePart(terms[3]))
            deflation == Plus(Plus(positivePart(Minus(Zero, terms[1])),
                                   positivePart(Minus(Zero, terms[2]))),
                              positivePart(Minus(Zero, terms[3])))
        IN  /\ a.energyAdjustment = Minus(Times(b.energy, m.energy), b.energy)
            /\ a.laborAdjustment = Minus(Times(b.labor, m.labor), b.labor)
            /\ a.coolingAdjustment =
                   Minus(Times(Times(b.powerDistribution, Num(4, 10)), m.cooling),
                         Times(b.powerDistribution, Num(4, 10)))
            /\ a.total = Plus(a.coolingAdjustment, Plus(a.laborAdjustment, a.energyAdjustment))
            /\ \A compliance, monitoring \in {Zero, m.compliance, Num(3, 1)} :
                   applyMultipliers(b, [m EXCEPT !.compliance = compliance,
                                                 !.monitoring = monitoring]) = a
            /\ Less(a.total, Zero) <=> Less(inflation, deflation)

\* adjustments of both signs whose total is negative, from a multiplier set
\* whose cooling field is not 1
AdjustmentWitness ==
    /\ computed
    /\ Less(Zero, last.result.adjustments.energyAdjustment)
    /\ Less(last.result.adjustments.laborAdjustment, Zero)
    /\ last.result.adjustments.coolingAdjustment # Zero
    /\ Less(last.result.adjustments.total, Zero)


\* the latest call was on the baseline scenario: region US, year 2024,
\* escalationRate 0, shock disabled, Medium workload without AI, Medium
\* regulatory intensity
baselineComputed ==
    /\ computed
    /\ last.scenario.region = "US"
    /\ last.scenario.time.year = baselineYear
    /\ last.scenario.time.escalationRate = Zero
    /\ ~ last.scenario.time.shockEnabled
    /\ last.scenario.workload = [utilizationClass |-> "Medium", aiEnabled |-> FALSE]
    /\ last.scenario.regulatoryIntensity = "Medium"

\* C17: for the baseline scenario and any base costs computeScenarioTCO yields
\* multipliers.combined = {1,1,1,1,1}, every adjustment term equal to 0 and
\* adjustments.total = 0, so grandTotal = base total + compliance + security
\* + risk.
BaselineNeutrality ==
    baselineComputed =>
        LET r == last.result
        IN  /\ r.multipliers.combined =
                   [energy |-> One, labor |-> One, compliance |-> One,
                    cooling |-> One, monitoring |-> One]
            /\ r.adjustments = [energyAdjustment |-> Zero, laborAdjustment |-> Zero,
                                coolingAdjustment |-> Zero, total |-> Zero]
            /\ r.totals.adjustments = Zero
            /\ r.totals.grandTotal =
                   Plus(Plus(r.baseTCO.total, r.complianceCosts.total),
                        Plus(r.securityCosts.total, r.riskCosts.expectedAnnualLoss))

\* the baseline scenario with a shock factor set but disabled, on base costs
\* with energy, labor and power distribution to adjust
BaselineWitness ==
    /\ baselineComputed
    /\ last.scenario.time.shockFactor = Num(15, 10)
    /\ Less(Zero, last.baseTCO.energy)
    /\ Less(Zero, last.baseTCO.labor)
    /\ Less(Zero, last.baseTCO.powerDistribution)
    /\ Less(last.result.baseTCO.total, last.result.totals.grandTotal)


\* the six compared fields by the name of their entry, in the order of the
\* comparisons
ComparedParameters ==
    << "Region", "Year", "Workload Class", "AI Mode", "Regulatory Intensity",
       "Security Investment" >>

\* the field of scenario s that the entry named parameter is about
fieldOf(s, parameter) ==
    CASE parameter = "Region" -> s.region
      [] parameter = "Year" -> s.time.year
      [] parameter = "Workload Class" -> s.workload.utilizationClass
      [] parameter = "AI Mode" -> s.workload.aiEnabled
      [] parameter = "Regulatory Intensity" -> s.regulatoryIntensity
      [] parameter = "Security Investment" -> s.security.annualInvestment

\* the value an entry carries for that field: the AI flag as a word
carried(s, parameter) ==
    IF parameter = "AI Mode"
    THEN IF s.workload.aiEnabled THEN "Enabled" ELSE "Disabled"
    ELSE fieldOf(s, parameter)

\* C18: parameterDifferences of compareScenarios contains an entry for a
\* field if and only if scenario A and B differ in that field, over exactly
\* the six fields region, time.year, workload.utilizationClass,
\* workload.aiEnabled, regulatoryIntensity and security.annualInvestment, in
\* that fixed order, each entry carrying A's and B's value; differences in any
\* other field produce no entry.
ParameterDifferencesExact ==
    out.op = "compareScenarios" =>
        LET diffs == out.result.parameterDifferences
            differing == {k \in 1 .. 6 :
                             fieldOf(out.scenarioA, ComparedParameters[k])
                                 # fieldOf(out.scenarioB, ComparedParameters[k])}
            \* the position among the six of the i-th entry
            position(i) == CHOOSE k \in 1 .. 6 : ComparedParameters[k] = diffs[i].parameter
        IN  /\ Len(diffs) = Cardinality(differing)
            /\ \A i \in 1 .. Len(diffs) :
                   /\ \E k \in differing : ComparedParameters[k] = diffs[i].parameter
                   /\ diffs[i].valueA = carried(out.scenarioA, diffs[i].parameter)
                   /\ diffs[i].valueB = carried(out.scenarioB, diffs[i].parameter)
                   /\ DOMAIN diffs[i] = {"parameter", "valueA", "valueB"}
            /\ \A i, j \in 1 .. Len(diffs) : i < j => position(i) < position(j)

\* two scenarios that differ in region, year, investment pool and escalation
\* rate: three entries, none for the rate
ParameterDifferencesWitness ==
    /\ out.op = "compareScenarios"
    /\ out.scenarioA.time.escalationRate # out.scenarioB.time.escalationRate
    /\ Len(out.result.parameterDifferences) = 3
    /\ out.result.parameterDifferences[1].parameter = "Region"
    /\ out.result.parameterDifferences[2].parameter = "Year"
    /\ out.result.parameterDifferences[3].parameter = "Security Investment"


\* C19: in every breakdown from computeScenarioTCO,
\* multipliers.time.escalationFactor equals (1 + escalationRate)^(year - 2024)
\* (the factor applied to labor and cooling), multipliers.time.shockFactor
\* equals the shock multiplier actually applied to energy, and their product
\* equals the time axis's energy multiplier, for shock enabled and disabled
\* and for a missing or zero shockFactor.
TimeMultiplierTransparency ==
    out.op = "computeScenarioTCO" =>
        LET time == out.scenario.time
            shown == out.result.multipliers.time
            applied == getTimeMultipliers(time)
        IN  /\ shown.escalationFactor =
                   MathPow(Plus(One, time.escalationRate), time.year - baselineYear)
            /\ shown.escalationFactor = applied.labor
            /\ shown.escalationFactor = applied.cooling
            /\ shown.shockFactor # Undefined
            /\ Times(applied.labor, shown.shockFactor) = applied.energy
            /\ Times(shown.escalationFactor, shown.shockFactor) = applied.energy


\* the four items and the total of the engine's calculateComplianceCosts
engineCompliance ==
    LET config == REGULATORY_PARAMETERS[out.scenario.regulatoryIntensity]
        r == out.result
    IN  /\ r.auditCosts = Times(config.auditFrequency, Num(75000, 1))
        /\ r.documentationCosts = Times(config.documentationHours, out.laborHourlyRate)
        /\ r.advisoryCosts = IF config.externalAdvisoryIncluded THEN Num(120000, 1) ELSE Zero
        /\ r.certificationCosts = Times(Num(50000, 1), config.complianceMultiplier)
        /\ r.total = Plus(Plus(r.auditCosts, r.documentationCosts),
                          Plus(r.advisoryCosts, r.certificationCosts))

\* the second calculator's four items equal the engine's
sameFourItems ==
    \A item \in {"auditCosts", "documentationCosts", "advisoryCosts", "certificationCosts"} :
        out.second[item] = out.result[item]

\* the second calculator's total exceeds the engine's by the training and
\* tooling costs
largerByTrainingAndTooling ==
    out.second.total =
        Plus(out.result.total,
             Plus(Times(Num(trainingPerEmployee, 1), out.employeeCount),
                  Times(Num(complianceTooling, 1),
                        REGULATORY_PARAMETERS[out.scenario.regulatoryIntensity]
                            .complianceMultiplier)))

\* C20 as stated: for every regulatory intensity and hourly rate the engine's
\* calculateComplianceCosts returns the four items and total = their sum, and
\* the second calculator returns the same four items and a total larger by
\* exactly trainingPerEmployee x employeeCount + complianceTooling x
\* complianceMultiplier.
ComplianceCalculatorsAgree ==
    out.op = "calculateComplianceCosts" =>
        /\ engineCompliance
        /\ sameFourItems
        /\ largerByTrainingAndTooling

\* C20: for every regulatory intensity and hourly rate the engine's
\* calculateComplianceCosts returns the four items and total = their sum; at
\* the hourly rate 75 the engine is called with by default, the second
\* calculator returns the same four items and a total larger by exactly
\* trainingPerEmployee x employeeCount + complianceTooling x
\* complianceMultiplier.
ComplianceCalculatorsAgreeAtDefaultRate ==
    out.op = "calculateComplianceCosts" =>
        /\ engineCompliance
        /\ out.laborHourlyRate = Num(documentationHourlyRate, 1) =>
               /\ sameFourItems
               /\ largerByTrainingAndTooling

\* both calculators at High intensity, the default rate and the default staff
ComplianceWitness ==
    /\ out.op = "calculateComplianceCosts"
    /\ out.scenario.regulatoryIntensity = "High"
    /\ out.laborHourlyRate = Num(defaultLaborHourlyRate, 1)
    /\ out.employeeCount = Num(defaultEmployeeCount, 1)
    /\ out.result.total = Num(435000, 1)
    /\ out.second.total = Num(497500, 1)


\* C21: securityCosts.total = siemPerNode x nodeCount + iamPerUser x userCount
\* + encryptionPerTB x totalStorageTB + incidentResponseRetainer and does not
\* depend on annualInvestment; riskCosts.breakdown.securityInvestment is
\* securityCosts.total + annualInvestment; and totals.security counts only
\* the itemized total, so annualInvestment itself is never added to
\* grandTotal.
SecuritySpendAdditive ==
    computed =>
        LET r == last.result
            security == last.scenario.security
            itemized == Plus(Plus(Times(security.siemPerNode, last.context.nodeCount),
                                  Times(security.iamPerUser, security.userCount)),
                             Plus(Times(security.encryptionPerTB,
                                        last.context.totalStorageTB),
                                  security.incidentResponseRetainer))
        IN  /\ r.securityCosts.total = itemized
            /\ \A annualInvestment \in Investments :
                   calculateSecurityCosts(
                       [last.scenario EXCEPT !.security.annualInvestment = annualInvestment],
                       last.context) = r.securityCosts
            /\ r.riskCosts.breakdown.securityInvestment =
                   Plus(itemized, security.annualInvestment)
            /\ r.totals.security = itemized
            /\ r.totals.grandTotal =
                   Plus(Plus(r.totals.baseTCO, r.totals.adjustments),
                        Plus(Plus(r.totals.compliance, itemized), r.totals.risk))

\* a breakdown of a scenario with a general investment pool, which the risk
\* model was given on top of the itemized controls
SecuritySpendWitness ==
    /\ computed
    /\ Less(Zero, last.scenario.security.annualInvestment)
    /\ Less(last.result.securityCosts.total,
            last.result.riskCosts.breakdown.securityInvestment)
    /\ Less(Zero, last.result.riskCosts.securityReductionFactor)


\* the documented multipliers of the settings of scenario s: region energy,
\* escalation, shock, class and AI
energyFactors(s) ==
    [region |-> CASE s.region = "US" -> One
                  [] s.region = "EU" -> Num(135, 100)
                  [] s.region = "Global" -> Num(11, 10),
     escalation |-> MathPow(Plus(One, s.time.escalationRate), s.time.year - 2024),
     shock |-> IF s.time.shockEnabled /\ s.time.shockFactor # Undefined
               THEN s.time.shockFactor ELSE One,
     class |-> CASE s.workload.utilizationClass = "Low" ->
                        [energy |-> Num(6, 10), cooling |-> Num(7, 10),
                         monitoring |-> Num(8, 10)]
                 [] s.workload.utilizationClass = "Medium" ->
                        [energy |-> One, cooling |-> One, monitoring |-> One]
                 [] s.workload.utilizationClass = "High" ->
                        [energy |-> Num(14, 10), cooling |-> Num(13, 10),
                         monitoring |-> Num(12, 10)],
     ai |-> IF s.workload.aiEnabled
            THEN [energy |-> Num(18, 10), cooling |-> Num(15, 10), monitoring |-> Num(13, 10)]
            ELSE [energy |-> One, cooling |-> One, monitoring |-> One]]

\* the combined energy multiplier computeScenarioTCO uses for EU, 2027 at
\* escalation rate 0.025, Medium workload without AI
combinedEnergyEU2027 ==
    combineMultipliers(
        << getRegionMultipliers("EU"),
           getTimeMultipliers([year |-> 2027, escalationRate |-> Num(25, 1000),
                               shockEnabled |-> FALSE, shockFactor |-> Undefined]),
           getWorkloadMultipliers([utilizationClass |-> "Medium", aiEnabled |-> FALSE]) >>).energy

\* C22: the combined energy multiplier in a breakdown is the product
\* region.energy x (1+escalationRate)^(year-2024) x (shockFactor if shock
\* enabled else 1) x class.energy x (1.8 if AI enabled else 1): the AI set
\* stacks multiplicatively on the class set for energy, cooling and
\* monitoring, so High + AI in US 2024 gives combined.energy = 2.52 and EU
\* 2027 at rate 0.025 gives 1.35 x 1.025^3.
CombinedEnergyProduct ==
    computed =>
        LET s == last.scenario
            m == last.result.multipliers
            f == energyFactors(s)
        IN  /\ m.combined.energy =
                   Times(Times(Times(f.region, f.escalation), f.shock),
                         Times(f.class.energy, f.ai.energy))
            /\ m.workload.energy = Times(f.class.energy, f.ai.energy)
            /\ m.workload.cooling = Times(f.class.cooling, f.ai.cooling)
            /\ m.workload.monitoring = Times(f.class.monitoring, f.ai.monitoring)
            /\ m.combined.cooling = Times(f.escalation, Times(f.class.cooling, f.ai.cooling))
            /\ m.combined.monitoring = Times(f.class.monitoring, f.ai.monitoring)
            /\ (/\ s.region = "US" /\ s.time.year = 2024 /\ ~ s.time.shockEnabled
                /\ s.workload = [utilizationClass |-> "High", aiEnabled |-> TRUE]) =>
                   m.combined.energy = Num(252, 100)
            /\ combinedEnergyEU2027 = Times(Num(135, 100), Num(1076890625, 1000000000))

\* High workload with AI in the US in 2024: 1.4 x 1.8 = 2.52
CombinedEnergyWitness ==
    /\ computed
    /\ last.scenario.region = "US"
    /\ last.scenario.time.year = 2024
    /\ ~ last.scenario.time.shockEnabled
    /\ last.scenario.workload = [utilizationClass |-> "High", aiEnabled |-> TRUE]
    /\ last.result.multipliers.combined.energy = Num(252, 100)
    /\ last.result.multipliers.workload.energy = Num(252, 100)


\* C23: for every scenario within the documented parameter ranges and every
\* base cost input and context with non-negative values, the breakdown's
\* totals.baseTCO, totals.compliance, totals.security, totals.risk and
\* totals.grandTotal are all >= 0, even when totals.adjustments is negative.
NonNegativeCosts ==
    computed =>
        LET totals == last.result.totals
        IN  /\ \A layer \in {"baseTCO", "compliance", "security", "risk", "grandTotal"} :
                   Leq(Zero, totals[layer])
            /\ validateNonNegativeCosts(last.result) = [valid |-> TRUE, errors |-> << >>]

\* a deflationary breakdown: the adjustments total is negative
NonNegativeCostsWitness ==
    /\ computed
    /\ Less(last.result.totals.adjustments, Zero)
    /\ Less(Zero, last.result.totals.risk)
    /\ validateNonNegativeCosts(last.result).valid


\* a sensitivity run on one of the base cost parameters
baseCostSensitivity ==
    out.op = "calculateSensitivity" /\ out.parameter \in {"energy", "labor"}

\* C24: for parameter 'energy' (resp. 'labor') and perturbation p,
\* calculateSensitivity returns base equal to the direct computeScenarioTCO of
\* the unperturbed inputs, and low/high breakdowns whose baseTCO.energy (resp.
\* labor) is the base value x (1-p) and x (1+p), with every other base field
\* and the compliance, security and risk results identical to base's, so that
\* high.grandTotal - base.grandTotal = base.grandTotal - low.grandTotal =
\* p x base field x combined multiplier.
BaseCostSensitivity ==
    baseCostSensitivity =>
        LET r == out.result
            p == out.perturbationPercent
            field == out.parameter
            step == Times(Times(p, out.baseTCO[field]), r.base.multipliers.combined[field])
        IN  /\ r.base = computeScenarioTCO(out.baseTCO, out.scenario, out.context,
                                           r.base.calculatedAt)
            /\ r.low.baseTCO[field] = Times(out.baseTCO[field], Minus(One, p))
            /\ r.high.baseTCO[field] = Times(out.baseTCO[field], Plus(One, p))
            /\ \A side \in {"low", "high"} :
                   /\ \A f \in BaseFields \ {field} : r[side].baseTCO[f] = r.base.baseTCO[f]
                   /\ r[side].complianceCosts = r.base.complianceCosts
                   /\ r[side].securityCosts = r.base.securityCosts
                   /\ r[side].riskCosts = r.base.riskCosts
            /\ Minus(r.high.totals.grandTotal, r.base.totals.grandTotal) = step
            /\ Minus(r.base.totals.grandTotal, r.low.totals.grandTotal) = step

\* a labor run under a combined labor multiplier other than 1
BaseCostSensitivityWitness ==
    /\ baseCostSensitivity
    /\ out.parameter = "labor"
    /\ Less(One, out.result.base.multipliers.combined.labor)
    /\ Less(out.result.low.totals.grandTotal, out.result.base.totals.grandTotal)
    /\ Less(out.result.base.totals.grandTotal, out.result.high.totals.grandTotal)
    /\ out.result.low.baseTCO.energy = out.baseTCO.energy


\* the page has run its effects on the provider's current state
settled ==
    isInitialized /\ ~ effectPending

\* the names importScenario gives the scenarios of the accepted documents
importedNames ==
    {importScenarioFromJSON(json).name \o " (Imported)" :
        json \in {document \in ImportedDocuments :
                      importScenarioFromJSON(document).id # Null}}

\* C25: every scenario that passes validateScenario, and is added to the
\* store by importScenario, can be given to computeScenarioTCO without an
\* exception: after the import and the page's compute step the store holds
\* a breakdown for the imported scenario.
ImportedScenarioComputed ==
    settled =>
        \A i \in DOMAIN scenarios :
            (scenarios[i].id = activeScenarioId /\ scenarios[i].name \in importedNames)
                => activeScenarioId \in DOMAIN computationResults

\* the ids of the baseline scenarios of list
baselines(list) ==
    {list[i].id : i \in {j \in DOMAIN list : list[j].isBaseline}}

\* scenario s is a default scenario apart from its id
freshDefault(s) ==
    spreadOver(s, [id |-> Null]) = spreadOver(defaultBaseline(0), [id |-> Null])

\* C26: once the provider is initialized the scenario list holds at least one
\* scenario whatever is called, and deleting the last scenario replaces it
\* with a fresh default scenario that is the baseline and the active one.
StoreNeverEmpty ==
    /\ [](isInitialized => Len(scenarios) >= 1)
    /\ [][\A id \in listed(scenarios) :
              (isInitialized /\ deleteScenario(id) /\ listed(scenarios) = {id})
                  => /\ Len(scenarios') = 1
                     /\ freshDefault(scenarios'[1])
                     /\ scenarios'[1].id \notin listed(scenarios)
                     /\ activeScenarioId' = scenarios'[1].id]_vars

\* the last scenario was deleted: the list is one default baseline scenario
\* that is not the one the load effect created
StoreNeverEmptyWitness ==
    /\ settled
    /\ Len(scenarios) = 1
    /\ freshDefault(scenarios[1])
    /\ scenarios[1].id # uuidv4(0)
    /\ activeScenarioId = scenarios[1].id

\* C27: once the provider is initialized activeScenarioId is the id of a
\* listed scenario whatever is called, and deleting the active scenario makes
\* the first remaining scenario active.
ActiveScenarioListed ==
    /\ [](isInitialized => activeScenarioId \in listed(scenarios))
    /\ [][(/\ isInitialized
           /\ deleteScenario(activeScenarioId)
           /\ listed(scenarios) # {activeScenarioId})
              => activeScenarioId' =
                     SelectSeq(scenarios, LAMBDA s : s.id # activeScenarioId)[1].id]_vars

\* the first scenario of the stored list, active after the load, was deleted
ActiveScenarioWitness ==
    /\ settled
    /\ uuids = 2
    /\ listed(scenarios) = {uuidv4(1)}
    /\ scenarios[1].name = "Scenario B"
    /\ activeScenarioId = uuidv4(1)

\* C28: at most one scenario is the baseline whatever is called; setBaseline(id)
\* of a listed scenario leaves exactly that scenario as baseline, and a
\* created, cloned or imported scenario is not a baseline.
AtMostOneBaseline ==
    /\ [](Cardinality(baselines(scenarios)) <= 1)
    /\ [][/\ \A id \in listed(scenarios) :
                 (isInitialized /\ setBaseline(id)) => baselines(scenarios') = {id}
          /\ (/\ isInitialized
              /\ Len(scenarios') > Len(scenarios)
              /\ \/ \E name \in NewNames : createScenario(name)
                 \/ \E id \in listed(scenarios) : cloneScenario(id)
                 \/ \E json \in ImportedDocuments : importScenario(json))
                 => \A id \in listed(scenarios') \ listed(scenarios) :
                        id \notin baselines(scenarios')]_vars

\* the baseline moved from the first scenario to a clone of it
AtMostOneBaselineWitness ==
    /\ settled
    /\ Len(scenarios) >= 2
    /\ scenarios[1].name = "Default Scenario"
    /\ scenarios[2].name = "Default Scenario (Copy)"
    /\ baselines(scenarios) = {scenarios[2].id}

\* C29: after deleteScenario(id) the computationResults map has no entry for
\* id and its other entries are unchanged, so every key of computationResults
\* is the id of a listed scenario.
CachedResultsFollowList ==
    /\ [](DOMAIN computationResults \subseteq listed(scenarios))
    /\ [][\A id \in listed(scenarios) :
              (isInitialized /\ deleteScenario(id))
                  => /\ id \notin DOMAIN computationResults'
                     /\ \A key \in DOMAIN computationResults \ {id} :
                            /\ key \in DOMAIN computationResults'
                            /\ computationResults'[key] = computationResults[key]]_vars

\* the first scenario was deleted with its cached result, and the second
\* scenario's result is still cached
CachedResultsWitness ==
    /\ settled
    /\ listed(scenarios) = {uuidv4(1)}
    /\ scenarios[1].name # "Default Scenario"
    /\ DOMAIN computationResults = {uuidv4(1)}

\* C30: with all else fixed, changing the scenario's region from US
\* (compliance multiplier 1.0) to EU (1.4) or Global (1.15) raises the
\* compliance cost total in the breakdown returned by computeScenarioTCO.
RegionRaisesCompliance ==
    (computed /\ last.scenario.region = "US") =>
        \A region \in {"EU", "Global"} :
            Less(last.result.totals.compliance,
                 computeScenarioTCO(last.baseTCO, [last.scenario EXCEPT !.region = region],
                                    last.context, clock).totals.compliance)

=============================================================================
